---- MODULE Spec2Model ----
(***************************************************************************)
(* A model of the RayTracer core: the scalar interval algebra, the AABB    *)
(* constructors and slab test, the sphere/quad primitives, the hittable    *)
(* list and the BVH, and the tiled parallel renderer of Camera::render.    *)
(*                                                                         *)
(* f64 values are modelled as extended rationals <<n, d>> in lowest terms: *)
(*   d > 0        the finite number n/d                                    *)
(*   <<1, 0>>     +infinity      <<-1, 0>>   -infinity                     *)
(*   <<0, 0>>     NaN                                                      *)
(* with the IEEE-754 rules for infinities and NaN.  Every finite value the *)
(* model computes is exact; inputs are drawn from small dyadic sets, on    *)
(* which the f64 operations of the source are exact as well (the only      *)
(* non-dyadic constants are 0.0001 and 0.001, which are compared only      *)
(* against values at least 1e-5 away from them or structurally equal).     *)
(* Zero is unsigned: 1/0 is +infinity.                                     *)
(***************************************************************************)
EXTENDS Integers, Sequences, FiniteSets, TLC

VARIABLES
    op,            \* geometry: the last operation applied
    args,          \* geometry: its inputs
    result,        \* geometry: what it returned
    cam,           \* render: the Camera's fields
    mainpc,        \* render: where the submitting thread is
    cur,           \* render: row-major index of the tile the loop is at
    thread_count,  \* render: the AtomicUsize counter
    wpc,           \* render: where each tile's worker is
    traced,        \* render: pixels each worker has accumulated in its buffer
    written,       \* render: pixels each worker has copied into the image
    locks,         \* render: how often each worker has acquired img_mtx
    img_mtx,       \* render: the worker holding the image mutex, or NoTile
    img            \* render: per pixel, the workers that wrote it, in order

geomVars == <<op, args, result>>

renderVars == <<cam, mainpc, cur, thread_count, wpc, traced, written, locks, img_mtx, img>>

vars == <<geomVars, renderVars>>

\* ------------------------------------------------------------------------
\* Extended rational arithmetic (the f64 operations the source uses)
\* ------------------------------------------------------------------------

Abs(n) == IF n < 0 THEN -n ELSE n

Sgn(n) == IF n < 0 THEN -1 ELSE IF n > 0 THEN 1 ELSE 0

RECURSIVE GCD(_, _)
GCD(a, b) == IF b = 0 THEN a ELSE GCD(b, a % b)

\* the value n/d in lowest terms (d >= 0)
Q(n, d) ==
    IF d = 0 THEN <<Sgn(n), 0>>
    ELSE LET g == GCD(Abs(n), d) IN <<n \div g, d \div g>>

Zero == <<0, 1>>
One == <<1, 1>>
INF == <<1, 0>>
NEG_INF == <<-1, 0>>
NaN == <<0, 0>>

Int2Q(n) == <<n, 1>>

IsNaN(a) == a = NaN
IsInf(a) == a[2] = 0 /\ a[1] # 0
IsFinite(a) == a[2] > 0

Neg(a) == <<-a[1], a[2]>>

\* a + b
FAdd(a, b) ==
    IF IsNaN(a) \/ IsNaN(b) THEN NaN
    ELSE IF IsInf(a) /\ IsInf(b) THEN (IF a = b THEN a ELSE NaN)
    ELSE IF IsInf(a) THEN a
    ELSE IF IsInf(b) THEN b
    ELSE LET g == GCD(a[2], b[2])
         IN  Q(a[1] * (b[2] \div g) + b[1] * (a[2] \div g), (a[2] \div g) * b[2])

\* a - b
FSub(a, b) == FAdd(a, Neg(b))

\* a * b
FMul(a, b) ==
    IF a[2] = 0 \/ b[2] = 0 THEN <<Sgn(a[1]) * Sgn(b[1]), 0>>
    ELSE LET g1 == GCD(Abs(a[1]), b[2])
             g2 == GCD(Abs(b[1]), a[2])
         IN  Q((a[1] \div g1) * (b[1] \div g2), (a[2] \div g2) * (b[2] \div g1))

\* 1 / a
FInv(a) ==
    IF a[1] > 0 THEN <<a[2], a[1]>>
    ELSE IF a[1] < 0 THEN <<-a[2], -a[1]>>
    ELSE IF a[2] > 0 THEN INF
    ELSE NaN

\* a / b
FDiv(a, b) ==
    IF IsInf(a) /\ IsInf(b) THEN NaN
    ELSE IF a = Zero /\ b = Zero THEN NaN
    ELSE FMul(a, FInv(b))

\* a < b  (false when either is NaN)
FLt(a, b) ==
    IF IsNaN(a) \/ IsNaN(b) THEN FALSE
    ELSE IF a[2] = 0 \/ b[2] = 0
         THEN (IF a[2] = 0 /\ b[2] = 0 THEN a[1] < b[1]
               ELSE IF a[2] = 0 THEN a[1] < 0
               ELSE b[1] > 0)
    ELSE LET g == GCD(a[2], b[2])
         IN  a[1] * (b[2] \div g) < b[1] * (a[2] \div g)

\* a <= b  (false when either is NaN)
FLe(a, b) == ~IsNaN(a) /\ ~IsNaN(b) /\ ~FLt(b, a)

FGt(a, b) == FLt(b, a)
FGe(a, b) == FLe(b, a)

\* f64::min: the other operand when one is NaN
FMin(a, b) == IF IsNaN(a) THEN b ELSE IF IsNaN(b) THEN a ELSE IF FLt(b, a) THEN b ELSE a

\* f64::max: the other operand when one is NaN
FMax(a, b) == IF IsNaN(a) THEN b ELSE IF IsNaN(b) THEN a ELSE IF FLt(a, b) THEN b ELSE a

FAbs(a) == <<Abs(a[1]), a[2]>>

RECURSIVE ISqrtFrom(_, _)
ISqrtFrom(n, k) == IF (k + 1) * (k + 1) > n THEN k ELSE ISqrtFrom(n, k + 1)

\* floor of the square root of a natural number
ISqrt(n) == ISqrtFrom(n, 0)

\* the same root found by search, for arguments below 2^31
FloorSqrt(n) == CHOOSE k \in 0..46340 : k * k <= n /\ (k + 1) * (k + 1) > n

IsSquare(n) == n >= 0 /\ ISqrt(n) * ISqrt(n) = n

\* the square root is exactly representable (or the argument is negative/non-finite)
SqrtExact(a) == ~IsFinite(a) \/ a[1] < 0 \/ (IsSquare(a[1]) /\ IsSquare(a[2]))

\* f64::sqrt: NaN below zero; exact on the perfect squares the inputs are drawn from
FSqrt(a) ==
    IF IsNaN(a) \/ a[1] < 0 THEN NaN
    ELSE IF a[2] = 0 THEN INF
    ELSE <<ISqrt(a[1]), ISqrt(a[2])>>

\* ------------------------------------------------------------------------
\* interval.rs
\* ------------------------------------------------------------------------

Interval_with_bounds(min, max) == [min |-> min, max |-> max]

Interval_with_orderless_bounds(a, b) == [min |-> FMin(a, b), max |-> FMax(a, b)]

Interval_EMPTY == [min |-> INF, max |-> NEG_INF]

Interval_UNIVERSE == [min |-> NEG_INF, max |-> INF]

Interval_size(iv) == FSub(iv.max, iv.min)

Interval_contains(iv, x) == FLe(iv.min, x) /\ FLe(x, iv.max)

Interval_surrounds(iv, x) == FLt(iv.min, x) /\ FLt(x, iv.max)

Interval_clamp(iv, x) ==
    IF FLt(x, iv.min) THEN iv.min
    ELSE IF FGt(x, iv.max) THEN iv.max
    ELSE x

Interval_expand(iv, delta) ==
    Interval_with_bounds(FSub(iv.min, FDiv(delta, Int2Q(2))),
                         FAdd(iv.max, FDiv(delta, Int2Q(2))))

Interval_intersect(iv, rhs) ==
    [min |-> FMax(iv.min, rhs.min), max |-> FMin(iv.max, rhs.max)]

\* a plausible slip: the bounds of the intersection instead of the hull
Interval_union_mutant(iv, rhs) ==
    [min |-> FMax(iv.min, rhs.min), max |-> FMin(iv.max, rhs.max)]

Interval_union(iv, rhs) ==
    [min |-> FMin(iv.min, rhs.min), max |-> FMax(iv.max, rhs.max)]

Interval_add(iv, rhs) == [min |-> FAdd(iv.min, rhs), max |-> FAdd(iv.max, rhs)]

\* ------------------------------------------------------------------------
\* Vec3 and Ray (vec3.rs, ray.rs)
\* ------------------------------------------------------------------------

Vec3_new(x, y, z) == [x |-> x, y |-> y, z |-> z]

V(x, y, z) == Vec3_new(Int2Q(x), Int2Q(y), Int2Q(z))

Vec3_zero == V(0, 0, 0)

Vec3_add(a, b) == Vec3_new(FAdd(a.x, b.x), FAdd(a.y, b.y), FAdd(a.z, b.z))

Vec3_sub(a, b) == Vec3_new(FSub(a.x, b.x), FSub(a.y, b.y), FSub(a.z, b.z))

Vec3_neg(a) == Vec3_new(Neg(a.x), Neg(a.y), Neg(a.z))

Vec3_scale(a, k) == Vec3_new(FMul(a.x, k), FMul(a.y, k), FMul(a.z, k))

Vec3_div(a, k) == Vec3_new(FDiv(a.x, k), FDiv(a.y, k), FDiv(a.z, k))

Vec3_dot(a, b) == FAdd(FAdd(FMul(a.x, b.x), FMul(a.y, b.y)), FMul(a.z, b.z))

Vec3_cross(a, b) ==
    Vec3_new(FSub(FMul(a.y, b.z), FMul(a.z, b.y)),
             FSub(FMul(a.z, b.x), FMul(a.x, b.z)),
             FSub(FMul(a.x, b.y), FMul(a.y, b.x)))

Vec3_squared_length(a) == Vec3_dot(a, a)

Vec3_length(a) == FSqrt(Vec3_squared_length(a))

Vec3_unit(a) == Vec3_div(a, Vec3_length(a))

\* lp(axis): the component 0/1/2
Vec3_lp(a, axis) == IF axis = 0 THEN a.x ELSE IF axis = 1 THEN a.y ELSE a.z

Ray_new(origin, direction, time) ==
    [a_origin |-> origin, b_direction |-> direction, time |-> time]

Ray_at(r, t) == Vec3_add(r.a_origin, Vec3_scale(r.b_direction, t))

\* ------------------------------------------------------------------------
\* aabb.rs
\* ------------------------------------------------------------------------

\* let delta = 0.0001
PadDelta == <<1, 10000>>

AABB_of(x, y, z) == [x |-> x, y |-> y, z |-> z]

AABB_EMPTY == AABB_of(Interval_EMPTY, Interval_EMPTY, Interval_EMPTY)

AABB_UNIVERSE == AABB_of(Interval_UNIVERSE, Interval_UNIVERSE, Interval_UNIVERSE)

AABB_default == AABB_of(Interval_EMPTY, Interval_EMPTY, Interval_EMPTY)

pad_axis(iv) == IF FLt(Interval_size(iv), PadDelta) THEN Interval_expand(iv, PadDelta) ELSE iv

pad_to_minimums(b) == AABB_of(pad_axis(b.x), pad_axis(b.y), pad_axis(b.z))

AABB_new(x, y, z) == pad_to_minimums(AABB_of(x, y, z))

AABB_new_two_points(a, b) ==
    pad_to_minimums(AABB_of(Interval_with_orderless_bounds(a.x, b.x),
                            Interval_with_orderless_bounds(a.y, b.y),
                            Interval_with_orderless_bounds(a.z, b.z)))

AABB_new_two_boxes(a, b) ==
    pad_to_minimums(AABB_of(Interval_union(a.x, b.x),
                            Interval_union(a.y, b.y),
                            Interval_union(a.z, b.z)))

AABB_union(a, rhs) ==
    AABB_of(Interval_union(a.x, rhs.x), Interval_union(a.y, rhs.y), Interval_union(a.z, rhs.z))

AABB_axis_interval(b, id) == IF id = 0 THEN b.x ELSE IF id = 1 THEN b.y ELSE b.z

AABB_longest_axis(b) ==
    IF FGt(Interval_size(b.x), Interval_size(b.y))
    THEN (IF FGt(Interval_size(b.x), Interval_size(b.z)) THEN 0 ELSE 2)
    ELSE (IF FGt(Interval_size(b.y), Interval_size(b.z)) THEN 1 ELSE 2)

\* one axis of the slab loop: the narrowed ray interval
AABB_slab(b, r, ray_t, axis) ==
    LET ax == AABB_axis_interval(b, axis)
        adinv == FDiv(One, Vec3_lp(r.b_direction, axis))
        t0 == FMul(FSub(ax.min, Vec3_lp(r.a_origin, axis)), adinv)
        t1 == FMul(FSub(ax.max, Vec3_lp(r.a_origin, axis)), adinv)
    IN  Interval_intersect(ray_t, Interval_with_orderless_bounds(t0, t1))

AABB_has_empty_axis(b) ==
    \/ FLe(Interval_size(b.x), Zero)
    \/ FLe(Interval_size(b.y), Zero)
    \/ FLe(Interval_size(b.z), Zero)

RECURSIVE AABB_hit_from(_, _, _, _)
AABB_hit_from(b, r, ray_t, axis) ==
    IF axis = 3 THEN "hit"
    ELSE LET t == AABB_slab(b, r, ray_t, axis)
         IN  IF FLe(t.max, t.min)
             THEN (IF AABB_has_empty_axis(b) THEN "exit" ELSE "miss")
             ELSE AABB_hit_from(b, r, t, axis + 1)

\* "hit", "miss", or "exit" (the diagnostic and std::process::exit)
AABB_hit(b, r, ray_t) == AABB_hit_from(b, r, ray_t, 0)

AABB_add(b, rhs) ==
    AABB_of(Interval_add(b.x, rhs.x), Interval_add(b.y, rhs.y), Interval_add(b.z, rhs.z))

\* ------------------------------------------------------------------------
\* hittable.rs: HitRecord
\* ------------------------------------------------------------------------

\* a texture coordinate: a literal value, or the spherical map of a point
\* (acos/atan2 are kept symbolic: fn names the map, at its argument)
UVLit(val) == [fn |-> "lit", at |-> Vec3_zero, val |-> val]

HitRecord_new ==
    [p |-> Vec3_zero, normal |-> Vec3_zero, t |-> Zero,
     u |-> UVLit(Zero), v |-> UVLit(Zero),
     front_face |-> TRUE, mat |-> "lambertian_ones"]

\* a plausible slip: the comparison the wrong way round
set_face_normal_mutant(rec, r, outward_normal) ==
    LET ff == FGt(Vec3_dot(r.b_direction, outward_normal), Zero)
    IN  [rec EXCEPT !.front_face = ff,
                    !.normal = IF ff THEN outward_normal ELSE Vec3_neg(outward_normal)]

set_face_normal(rec, r, outward_normal) ==
    LET ff == FLt(Vec3_dot(r.b_direction, outward_normal), Zero)
    IN  [rec EXCEPT !.front_face = ff,
                    !.normal = IF ff THEN outward_normal ELSE Vec3_neg(outward_normal)]

\* the outcome of a hit call: the boolean, the caller's record afterwards, and
\* whether the process exited inside the call
HitResult(hit, rec) == [hit |-> hit, rec |-> rec, exit |-> FALSE]

HitExit(rec) == [hit |-> FALSE, rec |-> rec, exit |-> TRUE]

\* ------------------------------------------------------------------------
\* sphere.rs
\* ------------------------------------------------------------------------

Sphere_new(center, radius, mat) ==
    [kind |-> "sphere", center |-> center, radius |-> radius, mat |-> mat,
     velocity |-> Vec3_zero, is_moving |-> FALSE,
     bounding_box |->
        AABB_new_two_points(Vec3_sub(center, Vec3_new(radius, radius, radius)),
                            Vec3_add(center, Vec3_new(radius, radius, radius)))]

Sphere_new_moving(center1, center2, radius, mat) ==
    LET rvec == Vec3_new(radius, radius, radius)
        box1 == AABB_new_two_points(Vec3_sub(center1, rvec), Vec3_add(center1, rvec))
        box2 == AABB_new_two_points(Vec3_sub(center2, rvec), Vec3_add(center2, rvec))
    IN  [kind |-> "sphere", center |-> center1, radius |-> radius, mat |-> mat,
         velocity |-> Vec3_sub(center2, center1), is_moving |-> TRUE,
         bounding_box |-> AABB_new_two_boxes(box1, box2)]

Sphere_get_center(s, time) == Vec3_add(s.center, Vec3_scale(s.velocity, time))

get_sphere_uv(p) ==
    [u |-> [fn |-> "sphere_u", at |-> p, val |-> Zero],
     v |-> [fn |-> "sphere_v", at |-> p, val |-> Zero]]

\* let oc = center - r.a_origin
Sphere_oc(s, r) == Vec3_sub(Sphere_get_center(s, r.time), r.a_origin)

\* let a = r.b_direction.squared_length()
Sphere_a(r) == Vec3_squared_length(r.b_direction)

\* let h = r.b_direction * oc
Sphere_h(r, oc) == Vec3_dot(r.b_direction, oc)

\* let c = oc.squared_length() - self.radius * self.radius
Sphere_c(s, oc) == FSub(Vec3_squared_length(oc), FMul(s.radius, s.radius))

\* let discriminant = h * h - a * c
Sphere_discriminant_of(a, h, c) == FSub(FMul(h, h), FMul(a, c))

Sphere_discriminant_oc(s, r, oc) ==
    Sphere_discriminant_of(Sphere_a(r), Sphere_h(r, oc), Sphere_c(s, oc))

Sphere_discriminant(s, r) == Sphere_discriminant_oc(s, r, Sphere_oc(s, r))

\* the nearest root that lies in the acceptable range, or NaN when neither does
Sphere_root(ray_t, root1, root2) ==
    IF Interval_surrounds(ray_t, root1) THEN root1
    ELSE IF Interval_surrounds(ray_t, root2) THEN root2
    ELSE NaN

\* the record after a hit at root: mat, t, p, the face normal, then u and v
Sphere_record(s, r, rec, root, p, outward_normal) ==
    [set_face_normal([rec EXCEPT !.mat = s.mat, !.t = root, !.p = p], r, outward_normal)
        EXCEPT !.u = get_sphere_uv(outward_normal).u,
               !.v = get_sphere_uv(outward_normal).v]

\* let outward_normal = (rec.p - self.center) / self.radius
Sphere_hit_p(s, r, rec, root, p) ==
    HitResult(TRUE,
        Sphere_record(s, r, rec, root, p, Vec3_div(Vec3_sub(p, s.center), s.radius)))

Sphere_hit_root(s, r, rec, root) ==
    IF IsNaN(root) THEN HitResult(FALSE, rec)
    ELSE Sphere_hit_p(s, r, rec, root, Ray_at(r, root))

Sphere_hit_sqrtd(s, r, ray_t, rec, a, h, sqrtd) ==
    Sphere_hit_root(s, r, rec,
        Sphere_root(ray_t, FDiv(FSub(h, sqrtd), a), FDiv(FAdd(h, sqrtd), a)))

Sphere_hit_discriminant(s, r, ray_t, rec, a, h, discriminant) ==
    IF FLt(discriminant, Zero) THEN HitResult(FALSE, rec)
    ELSE Sphere_hit_sqrtd(s, r, ray_t, rec, a, h, FSqrt(discriminant))

Sphere_hit_ahc(s, r, ray_t, rec, a, h, c) ==
    Sphere_hit_discriminant(s, r, ray_t, rec, a, h, Sphere_discriminant_of(a, h, c))

Sphere_hit_oc(s, r, ray_t, rec, oc) ==
    Sphere_hit_ahc(s, r, ray_t, rec, Sphere_a(r), Sphere_h(r, oc), Sphere_c(s, oc))

Sphere_hit(s, r, ray_t, rec) == Sphere_hit_oc(s, r, ray_t, rec, Sphere_oc(s, r))

\* ------------------------------------------------------------------------
\* quad.rs
\* ------------------------------------------------------------------------

\* (denom.abs()) < 1e-8
QuadParallelEps == <<1, 100000000>>

Quad_bounding_box(q, u, v) ==
    AABB_new_two_boxes(
        AABB_new_two_points(q, Vec3_add(Vec3_add(q, u), v)),
        AABB_new_two_points(Vec3_add(q, u), Vec3_add(q, v)))

Quad_new(q, u, v, mat) ==
    LET n == Vec3_cross(u, v)
        normal == Vec3_unit(n)
    IN  [kind |-> "quad", q |-> q, u |-> u, v |-> v,
         w |-> Vec3_div(n, Vec3_dot(n, n)), mat |-> mat,
         bounding_box |-> Quad_bounding_box(q, u, v),
         normal |-> normal, d |-> Vec3_dot(normal, q)]

Quad_is_interior(a, b) ==
    LET unit_interval == Interval_with_bounds(Zero, One)
    IN  Interval_contains(unit_interval, a) /\ Interval_contains(unit_interval, b)

\* a plausible slip: is_interior stores the UV coordinates before its test
Quad_hit_alpha_beta_mutant(quad, r, rec, t, intersection, alpha, beta) ==
    IF ~Quad_is_interior(alpha, beta)
    THEN HitResult(FALSE, [rec EXCEPT !.u = UVLit(alpha), !.v = UVLit(beta)])
    ELSE HitResult(TRUE,
            set_face_normal(
                [rec EXCEPT !.u = UVLit(alpha), !.v = UVLit(beta),
                            !.t = t, !.p = intersection, !.mat = quad.mat],
                r, quad.normal))

\* the 2D shape is hit: the rest of the record is set
Quad_hit_alpha_beta(quad, r, rec, t, intersection, alpha, beta) ==
    IF ~Quad_is_interior(alpha, beta) THEN HitResult(FALSE, rec)
    ELSE HitResult(TRUE,
            set_face_normal(
                [rec EXCEPT !.u = UVLit(alpha), !.v = UVLit(beta),
                            !.t = t, !.p = intersection, !.mat = quad.mat],
                r, quad.normal))

\* alpha = w . (planar x v), beta = w . (u x planar)
Quad_hit_planar(quad, r, rec, t, intersection, planar_hitpt_Vector) ==
    Quad_hit_alpha_beta(quad, r, rec, t, intersection,
        Vec3_dot(quad.w, Vec3_cross(planar_hitpt_Vector, quad.v)),
        Vec3_dot(quad.w, Vec3_cross(quad.u, planar_hitpt_Vector)))

Quad_hit_intersection(quad, r, rec, t, intersection) ==
    Quad_hit_planar(quad, r, rec, t, intersection, Vec3_sub(intersection, quad.q))

Quad_hit_t(quad, r, ray_t, rec, t) ==
    IF ~Interval_contains(ray_t, t) THEN HitResult(FALSE, rec)
    ELSE Quad_hit_intersection(quad, r, rec, t, Ray_at(r, t))

Quad_hit_denom(quad, r, ray_t, rec, denom) ==
    IF FLt(FAbs(denom), QuadParallelEps) THEN HitResult(FALSE, rec)
    ELSE Quad_hit_t(quad, r, ray_t, rec,
            FDiv(FSub(quad.d, Vec3_dot(r.a_origin, quad.normal)), denom))

Quad_hit(quad, r, ray_t, rec) ==
    Quad_hit_denom(quad, r, ray_t, rec, Vec3_dot(r.b_direction, quad.normal))

\* ------------------------------------------------------------------------
\* hittable.rs: HittableList;  bvh.rs: BVHNode
\* ------------------------------------------------------------------------

HittableList_new == [kind |-> "list", objects |-> <<>>, bounding_box |-> AABB_default]

HittableList_add(list, object) ==
    [list EXCEPT !.objects = Append(@, object),
                 !.bounding_box = AABB_new_two_boxes(@, object.bounding_box)]

HittableList_clear(list) == [list EXCEPT !.objects = <<>>]

RECURSIVE HittableList_of_from(_, _)
HittableList_of_from(objs, list) ==
    IF objs = <<>> THEN list
    ELSE HittableList_of_from(Tail(objs), HittableList_add(list, Head(objs)))

\* the list built by new() and one add() per object
HittableList_of(objs) == HittableList_of_from(objs, HittableList_new)

Hittable_bounding_box(obj) == obj.bounding_box

RECURSIVE Hittable_hit(_, _, _, _)

\* a plausible slip: closest_so_far is not narrowed after a hit
HittableList_hit_step_mutant(st, res) ==
    IF res.exit THEN [st EXCEPT !.exit = TRUE]
    ELSE IF res.hit
    THEN [st EXCEPT !.temp_rec = res.rec, !.hit_anything = TRUE, !.rec = res.rec]
    ELSE [st EXCEPT !.temp_rec = res.rec]

\* the loop state after one object's hit returned res
HittableList_hit_step(st, res) ==
    IF res.exit THEN [st EXCEPT !.exit = TRUE]
    ELSE IF res.hit
    THEN [temp_rec |-> res.rec, hit_anything |-> TRUE,
          closest_so_far |-> res.rec.t, rec |-> res.rec, exit |-> FALSE]
    ELSE [st EXCEPT !.temp_rec = res.rec]

\* the loop of HittableList::hit from object i on; st is the loop state
RECURSIVE HittableList_hit_from(_, _, _, _, _)
HittableList_hit_from(objs, i, r, ray_t, st) ==
    IF i > Len(objs) \/ st.exit THEN st
    ELSE HittableList_hit_from(objs, i + 1, r, ray_t,
            HittableList_hit_step(st,
                Hittable_hit(objs[i], r,
                    Interval_with_bounds(ray_t.min, st.closest_so_far), st.temp_rec)))

HittableList_hit_result(st) ==
    IF st.exit THEN HitExit(st.rec) ELSE HitResult(st.hit_anything, st.rec)

HittableList_hit(list, r, ray_t, rec) ==
    HittableList_hit_result(
        HittableList_hit_from(list.objects, 1, r, ray_t,
            [temp_rec |-> HitRecord_new, hit_anything |-> FALSE,
             closest_so_far |-> ray_t.max, rec |-> rec, exit |-> FALSE]))

\* hit_left || hit_right
BVHNode_hit_both(hit_left, hit_right) ==
    IF hit_right.exit THEN hit_right
    ELSE HitResult(hit_left.hit \/ hit_right.hit, hit_right.rec)

\* self.right.hit on [ray_t.min, if hit_left { rec.t } else { ray_t.max }]
BVHNode_hit_right(node, r, ray_t, hit_left) ==
    IF hit_left.exit THEN hit_left
    ELSE BVHNode_hit_both(hit_left,
            Hittable_hit(node.right, r,
                Interval_with_bounds(ray_t.min,
                    IF hit_left.hit THEN hit_left.rec.t ELSE ray_t.max),
                hit_left.rec))

BVHNode_hit_box(node, r, ray_t, rec, box) ==
    IF box = "exit" THEN HitExit(rec)
    ELSE IF box = "miss" THEN HitResult(FALSE, rec)
    ELSE BVHNode_hit_right(node, r, ray_t, Hittable_hit(node.left, r, ray_t, rec))

BVHNode_hit(node, r, ray_t, rec) ==
    BVHNode_hit_box(node, r, ray_t, rec, AABB_hit(node.bounding_box, r, ray_t))

\* Translate::new: the child's box moved by the offset
Translate_new(object, offset) ==
    [kind |-> "translate", object |-> object, offset |-> offset,
     bounding_box |-> AABB_add(Hittable_bounding_box(object), offset)]

\* a plausible slip: rec.p = offset for rec.p += offset
Translate_hit_moved_mutant(tr, res) ==
    IF res.exit \/ ~res.hit THEN res
    ELSE HitResult(TRUE, [res.rec EXCEPT !.p = tr.offset])

\* Translate::hit after the child answered res: false on a miss, otherwise
\* the intersection point moved forwards by the offset
Translate_hit_moved(tr, res) ==
    IF res.exit \/ ~res.hit THEN res
    ELSE HitResult(TRUE, [res.rec EXCEPT !.p = Vec3_add(@, tr.offset)])

\* Translate::hit: the child is asked about the ray moved backwards by the offset
Translate_hit(tr, r, t_range, rec) ==
    Translate_hit_moved(tr,
        Hittable_hit(tr.object,
                     Ray_new(Vec3_sub(r.a_origin, tr.offset), r.b_direction, r.time),
                     t_range, rec))

\* the eight corners of the child's box, rotated
RotateY_testers(bb, cos_theta, sin_theta) ==
    {Vec3_new(FAdd(FMul(cos_theta, x), FMul(sin_theta, z)), y,
              FAdd(FMul(Neg(sin_theta), x), FMul(cos_theta, z))) :
        x \in {bb.x.min, bb.x.max}, y \in {bb.y.min, bb.y.max}, z \in {bb.z.min, bb.z.max}}

\* min.lp(c) or max.lp(c) after the loops: f64::min / f64::max over the testers
RotateY_bound(testers, c, least) ==
    CHOOSE m \in {Vec3_lp(tester, c) : tester \in testers} :
        \A tester \in testers :
            IF least THEN FLe(m, Vec3_lp(tester, c)) ELSE FLe(Vec3_lp(tester, c), m)

\* RotateY::new, from the cosine and the sine of the angle
RotateY_new(object, cos_theta, sin_theta) ==
    [kind |-> "rotate_y", object |-> object, cos_theta |-> cos_theta, sin_theta |-> sin_theta,
     bounding_box |->
        AABB_new_two_points(
            Vec3_new(RotateY_bound(RotateY_testers(Hittable_bounding_box(object), cos_theta, sin_theta), 0, TRUE),
                     RotateY_bound(RotateY_testers(Hittable_bounding_box(object), cos_theta, sin_theta), 1, TRUE),
                     RotateY_bound(RotateY_testers(Hittable_bounding_box(object), cos_theta, sin_theta), 2, TRUE)),
            Vec3_new(RotateY_bound(RotateY_testers(Hittable_bounding_box(object), cos_theta, sin_theta), 0, FALSE),
                     RotateY_bound(RotateY_testers(Hittable_bounding_box(object), cos_theta, sin_theta), 1, FALSE),
                     RotateY_bound(RotateY_testers(Hittable_bounding_box(object), cos_theta, sin_theta), 2, FALSE)))]

\* world space to object space: origin and direction of the ray
RotateY_to_object(rot, a) ==
    Vec3_new(FSub(FMul(rot.cos_theta, a.x), FMul(rot.sin_theta, a.z)), a.y,
             FAdd(FMul(rot.sin_theta, a.x), FMul(rot.cos_theta, a.z)))

\* object space to world space: rec.p and rec.normal
RotateY_to_world(rot, a) ==
    Vec3_new(FAdd(FMul(rot.cos_theta, a.x), FMul(rot.sin_theta, a.z)), a.y,
             FAdd(FMul(Neg(rot.sin_theta), a.x), FMul(rot.cos_theta, a.z)))

\* RotateY::hit after the child answered res
RotateY_hit_rotated(rot, res) ==
    IF res.exit \/ ~res.hit THEN res
    ELSE HitResult(TRUE, [res.rec EXCEPT !.p = RotateY_to_world(rot, @),
                                         !.normal = RotateY_to_world(rot, @)])

\* RotateY::hit
RotateY_hit(rot, r, t_range, rec) ==
    RotateY_hit_rotated(rot,
        Hittable_hit(rot.object,
                     Ray_new(RotateY_to_object(rot, r.a_origin),
                             RotateY_to_object(rot, r.b_direction), r.time),
                     t_range, rec))

\* dynamic dispatch through Arc<dyn Hittable>
Hittable_hit(obj, r, ray_t, rec) ==
    IF obj.kind = "sphere" THEN Sphere_hit(obj, r, ray_t, rec)
    ELSE IF obj.kind = "quad" THEN Quad_hit(obj, r, ray_t, rec)
    ELSE IF obj.kind = "list" THEN HittableList_hit(obj, r, ray_t, rec)
    ELSE IF obj.kind = "translate" THEN Translate_hit(obj, r, ray_t, rec)
    ELSE IF obj.kind = "rotate_y" THEN RotateY_hit(obj, r, ray_t, rec)
    ELSE BVHNode_hit(obj, r, ray_t, rec)

\* a_axis_interval.min.partial_cmp(&b_axis_interval.min) is Less
box_compare_less(a, b, axis_index) ==
    FLt(AABB_axis_interval(a.bounding_box, axis_index).min,
        AABB_axis_interval(b.bounding_box, axis_index).min)

\* x inserted into the sorted sequence s after every element not greater than it
RECURSIVE SortInsert(_, _, _)
SortInsert(s, x, axis) ==
    IF s = <<>> THEN <<x>>
    ELSE IF box_compare_less(x, Head(s), axis) THEN <<x>> \o s
    ELSE <<Head(s)>> \o SortInsert(Tail(s), x, axis)

RECURSIVE SortFrom(_, _, _)
SortFrom(s, acc, axis) ==
    IF s = <<>> THEN acc ELSE SortFrom(Tail(s), SortInsert(acc, Head(s), axis), axis)

\* vec[..object_span].sort_by(box_compare): a stable sort
sort_by_box(s, axis) == SortFrom(s, <<>>, axis)

\* a plausible slip: only the first object of the span is unioned
SpanBox_mutant(vec, acc) ==
    IF vec = <<>> THEN acc ELSE AABB_union(acc, Head(vec).bounding_box)

\* the union of the boxes of vec[0..object_span], from bounding_box = acc
RECURSIVE SpanBox(_, _)
SpanBox(vec, acc) ==
    IF vec = <<>> THEN acc ELSE SpanBox(Tail(vec), AABB_union(acc, Head(vec).bounding_box))

\* BVHNode::init_from_list on a span of at least one object
RECURSIVE init_from_list(_)
init_from_list(vec) ==
    LET object_span == Len(vec)
        bounding_box == SpanBox(vec, AABB_EMPTY)
        axis == AABB_longest_axis(bounding_box)
    IN  IF object_span = 1
        THEN [kind |-> "bvh", left |-> vec[1], right |-> vec[1],
              bounding_box |-> bounding_box]
        ELSE IF object_span = 2
        THEN [kind |-> "bvh", left |-> vec[1], right |-> vec[2],
              bounding_box |-> bounding_box]
        ELSE LET sorted == sort_by_box(vec, axis)
                 mid == object_span \div 2
             IN  [kind |-> "bvh",
                  left |-> init_from_list(SubSeq(sorted, 1, mid)),
                  right |-> init_from_list(SubSeq(sorted, mid + 1, object_span)),
                  bounding_box |-> bounding_box]

BVHNode_new(list) == init_from_list(list.objects)

\* ------------------------------------------------------------------------
\* Inputs of the geometry operations
\* ------------------------------------------------------------------------

\* scalars range over -MaxCoord..MaxCoord and the two infinities
MaxCoord == 1

\* a scene holds at most MaxObjects leaves
MaxObjects == 3

ScalarSet == {Int2Q(n) : n \in -MaxCoord..MaxCoord} \cup {INF, NEG_INF}

IntervalSet == {Interval_with_bounds(a, b) : a, b \in ScalarSet}

PointSet == {V(x, y, z) : x, y, z \in -MaxCoord..MaxCoord}

\* boxes as the program builds them, and raw ones (EMPTY, inverted, flat)
BoxSet ==
    {AABB_EMPTY, AABB_UNIVERSE}
    \cup {AABB_new_two_points(V(0, 0, 0), p) : p \in {V(0, 0, 0), V(1, 0, 1), V(1, 1, 1)}}
    \cup {AABB_of(iv, iv, Interval_with_bounds(Zero, One)) :
            iv \in {Interval_with_bounds(One, Zero), Interval_with_bounds(Zero, Zero)}}

\* the leaves scenes are built from: two spheres, and two coplanar,
\* overlapping quads of different materials
Leaf(i) ==
    CASE i = 1 -> Sphere_new(V(0, 0, 0), One, "matA")
      [] i = 2 -> Sphere_new(V(4, 0, 2), One, "matB")
      [] i = 3 -> Quad_new(V(-1, -1, 2), V(2, 0, 0), V(0, 2, 0), "matC")
      [] OTHER -> Quad_new(V(0, -1, 2), V(2, 0, 0), V(0, 2, 0), "matD")

LeafIds == {1, 2, 3, 4}

LeafTable == [i \in LeafIds |-> Leaf(i)]

IsInjective(s) == \A i, j \in 1..Len(s) : i # j => s[i] # s[j]

\* scenes: the non-empty sequences of distinct leaves, at most MaxObjects long
SceneSet ==
    {s \in UNION {[1..n -> LeafIds] : n \in 1..MaxObjects} : IsInjective(s)}

SceneObjects(s) == [i \in 1..Len(s) |-> LeafTable[s[i]]]

\* each scene as a HittableList, and as the BVH built from that list
ListTable == [s \in SceneSet |-> HittableList_of(SceneObjects(s))]

BVHTable == [s \in SceneSet |-> BVHNode_new(ListTable[s])]

OriginSet == {V(0, 0, -3), V(1, 0, -3), V(0, 0, 0), V(-3, 0, 0), V(-3, 1, 0)}

DirectionSet == {V(0, 0, 1), V(0, 0, 2), V(1, 0, 0), V(1, 0, 1)}

RaySet == {Ray_new(o, d, Zero) : o \in OriginSet, d \in DirectionSet}

\* Interval::with_bounds(0.001, f64::INFINITY) of ray_color, and two ranges
\* whose bound is the t of a surface crossing
RayIntervalSet ==
    {Interval_with_bounds(<<1, 1000>>, INF),
     Interval_with_bounds(Zero, Int2Q(5)),
     Interval_with_bounds(Int2Q(2), INF)}

\* every square root the hit takes is exact
RECURSIVE HitExact(_, _)
HitExact(obj, r) ==
    IF obj.kind = "sphere" THEN SqrtExact(Sphere_discriminant(obj, r))
    ELSE IF obj.kind = "quad" THEN TRUE
    ELSE IF obj.kind = "list" THEN \A i \in 1..Len(obj.objects) : HitExact(obj.objects[i], r)
    ELSE IF obj.kind = "translate"
    THEN HitExact(obj.object, Ray_new(Vec3_sub(r.a_origin, obj.offset), r.b_direction, r.time))
    ELSE IF obj.kind = "rotate_y"
    THEN HitExact(obj.object, Ray_new(RotateY_to_object(obj, r.a_origin),
                                      RotateY_to_object(obj, r.b_direction), r.time))
    ELSE IF obj.kind = "medium"
    THEN HitExact(obj.boundary, r) /\ SqrtExact(Vec3_squared_length(r.b_direction))
    ELSE HitExact(obj.left, r) /\ HitExact(obj.right, r)

\* ------------------------------------------------------------------------
\* The geometry operations as actions
\* ------------------------------------------------------------------------

GeomInit == op = "init" /\ args = <<>> /\ result = <<>>

\* Interval::union and Interval::contains
DoIntervalUnion ==
    /\ op = "init"
    /\ \E a, b \in IntervalSet, x \in ScalarSet :
        /\ op' = "interval_union"
        /\ args' = [a |-> a, b |-> b, x |-> x]
        /\ result' = [union |-> Interval_union(a, b),
                      in_union |-> Interval_contains(Interval_union(a, b), x),
                      in_a |-> Interval_contains(a, x),
                      in_b |-> Interval_contains(b, x)]
        /\ UNCHANGED renderVars

\* AABB::new
DoAABBNew ==
    /\ op = "init"
    /\ \E x \in IntervalSet, y, z \in {Interval_EMPTY, Interval_with_bounds(Zero, Zero),
                                     Interval_with_bounds(Zero, One)} :
        /\ op' = "aabb_new"
        /\ args' = [x |-> x, y |-> y, z |-> z]
        /\ result' = AABB_new(x, y, z)
        /\ UNCHANGED renderVars

\* AABB::new_two_points
DoAABBTwoPoints ==
    /\ op = "init"
    /\ \E a, b \in PointSet :
        /\ op' = "aabb_new_two_points"
        /\ args' = [a |-> a, b |-> b]
        /\ result' = AABB_new_two_points(a, b)
        /\ UNCHANGED renderVars

\* AABB::new_two_boxes
DoAABBTwoBoxes ==
    /\ op = "init"
    /\ \E a, b \in BoxSet :
        /\ op' = "aabb_new_two_boxes"
        /\ args' = [a |-> a, b |-> b]
        /\ result' = AABB_new_two_boxes(a, b)
        /\ UNCHANGED renderVars

\* AABB::hit
DoAABBHit ==
    /\ op = "init"
    /\ \E b \in BoxSet, r \in RaySet, ray_t \in RayIntervalSet :
        /\ op' = "aabb_hit"
        /\ args' = [box |-> b, r |-> r, ray_t |-> ray_t]
        /\ result' = AABB_hit(b, r, ray_t)
        /\ UNCHANGED renderVars

\* offsets of Translate: none, along one and two axes, a fraction, and one
\* with an infinite component
OffsetSet ==
    {V(0, 0, 0), V(1, 0, 0), V(-1, 2, 0), V(0, 0, 3),
     Vec3_new(<<1, 2>>, Zero, Zero), Vec3_new(INF, Zero, Zero)}

\* the ray the child of Translate(Translate(child, v), -v) is asked about
TwiceOffsetRay(r, v) ==
    Ray_new(Vec3_sub(Vec3_sub(r.a_origin, Vec3_neg(v)), v), r.b_direction, r.time)

\* a leaf's hit and bounding box, and those of Translate(Translate(leaf, v), -v)
DoHitTranslate ==
    /\ op = "init"
    /\ \E i \in LeafIds, v \in OffsetSet, r \in RaySet, ray_t \in RayIntervalSet :
        /\ HitExact(LeafTable[i], r)
        /\ HitExact(LeafTable[i], TwiceOffsetRay(r, v))
        /\ op' = "hit_translate"
        /\ args' = [leaf |-> i, offset |-> v, r |-> r, ray_t |-> ray_t]
        /\ result' =
              [child |-> Hittable_hit(LeafTable[i], r, ray_t, HitRecord_new),
               child_box |-> Hittable_bounding_box(LeafTable[i]),
               twice |-> Hittable_hit(
                            Translate_new(Translate_new(LeafTable[i], v), Vec3_neg(v)),
                            r, ray_t, HitRecord_new),
               twice_box |-> Hittable_bounding_box(
                            Translate_new(Translate_new(LeafTable[i], v), Vec3_neg(v)))]
        /\ UNCHANGED renderVars

\* spheres at rest and in motion (centre at time 0 and at time 1)
SphereSet ==
    {Sphere_new(V(0, 0, 0), One, "matA"),
     Sphere_new_moving(V(0, 0, 0), V(0, 0, 2), One, "matA"),
     Sphere_new_moving(V(0, 0, 0), V(2, 0, 0), One, "matB")}

\* the times of the rays: shutter open, half way, shutter closed
TimeSet == {Zero, <<1, 2>>, One}

\* Sphere::hit for a ray that carries a time
DoHitSphere ==
    /\ op = "init"
    /\ \E s \in SphereSet, r \in RaySet, time \in TimeSet, ray_t \in RayIntervalSet :
        /\ HitExact(s, Ray_new(r.a_origin, r.b_direction, time))
        /\ op' = "hit_sphere"
        /\ args' = [sphere |-> s, r |-> Ray_new(r.a_origin, r.b_direction, time), ray_t |-> ray_t]
        /\ result' = Hittable_hit(s, Ray_new(r.a_origin, r.b_direction, time), ray_t, HitRecord_new)
        /\ UNCHANGED renderVars

\* HitRecord::set_face_normal on a fresh record
DoSetFaceNormal ==
    /\ op = "init"
    /\ \E d \in PointSet, n \in PointSet :
        /\ op' = "set_face_normal"
        /\ args' = [r |-> Ray_new(Vec3_zero, d, Zero), outward_normal |-> n]
        /\ result' = set_face_normal(HitRecord_new, Ray_new(Vec3_zero, d, Zero), n)
        /\ UNCHANGED renderVars

\* one leaf's hit (Sphere::hit, Quad::hit) into a fresh record
DoHitLeaf ==
    /\ op = "init"
    /\ \E i \in LeafIds, r \in RaySet, ray_t \in RayIntervalSet :
        /\ HitExact(LeafTable[i], r)
        /\ op' = "hit_leaf"
        /\ args' = [leaf |-> i, r |-> r, ray_t |-> ray_t]
        /\ result' = Hittable_hit(LeafTable[i], r, ray_t, HitRecord_new)
        /\ UNCHANGED renderVars

\* the same leaves, ray and interval through HittableList::hit and through the
\* BVH that BVHNode::new builds from the list
DoHitScene ==
    /\ op = "init"
    /\ \E s \in SceneSet, r \in RaySet, ray_t \in RayIntervalSet :
        /\ HitExact(ListTable[s], r)
        /\ op' = "hit_scene"
        /\ args' = [scene |-> s, r |-> r, ray_t |-> ray_t]
        /\ result' = [list |-> HittableList_hit(ListTable[s], r, ray_t, HitRecord_new),
                      bvh |-> BVHNode_hit(BVHTable[s], r, ray_t, HitRecord_new)]
        /\ UNCHANGED renderVars

\* back to the start, for the next operation
GeomReset ==
    /\ op # "init"
    /\ op' = "init" /\ args' = <<>> /\ result' = <<>>
    /\ UNCHANGED renderVars


\* ------------------------------------------------------------------------
\* camera.rs: Camera::initialize, Camera::render, Camera::render_sub
\* ------------------------------------------------------------------------

\* image_width ranges over 0..MaxImageWidth
MaxImageWidth == 2

\* part_num_x and part_num_y range over the pairs with at most MaxTiles tiles
MaxTiles == 4

\* thread_limit ranges over 1..MaxThreadLimit
MaxThreadLimit == 2

\* aspect_ratio as num/den: 1.0 and 2.0
AspectSet == {<<1, 1>>, <<2, 1>>}

NoTile == -1

TileIds == 0..(MaxTiles - 1)

PixelIds == (0..(MaxImageWidth - 1)) \X (0..(MaxImageWidth - 1))

\* the 0.999 added to the square root, as a fraction
SubPixelNum == 999

SubPixelDen == 1000

\* floor(sqrt(spp) + 0.999) given k = floor(sqrt(spp)): k + 1 when
\* sqrt(spp) >= k + 1 - 0.999, i.e. when
\* (spp - k*k) * 1000^2 >= 2*k*1000*(1000 - 999) + (1000 - 999)^2, else k
sub_pixel_cnt_from(spp, k) ==
    IF (spp - k * k) * SubPixelDen * SubPixelDen
         >= 2 * k * SubPixelDen * (SubPixelDen - SubPixelNum)
            + (SubPixelDen - SubPixelNum) * (SubPixelDen - SubPixelNum)
    THEN k + 1
    ELSE k

\* sub_pixel_cnt = ((sample_per_pixel as f64).sqrt() + 0.999).floor() as u32
sub_pixel_cnt_of(spp) == sub_pixel_cnt_from(spp, FloorSqrt(spp))

\* image_height = (image_width as f64 / aspect_ratio) as u32, at least 1
image_height_of(image_width, aspect) ==
    LET h == (image_width * aspect[2]) \div aspect[1]
    IN  IF h < 1 THEN 1 ELSE h

\* a plausible slip: the width assertion left out
partition_asserts_mutant(c) ==
    /\ c.part_num_y # 0 /\ c.part_num_x # 0
    /\ image_height_of(c.image_width, c.aspect_ratio) % c.part_num_y = 0

\* assert_eq!(image_height % part_num_y, 0); assert_eq!(image_width % part_num_x, 0)
\* (a zero divisor panics as well)
partition_asserts(c) ==
    /\ c.part_num_y # 0 /\ c.part_num_x # 0
    /\ image_height_of(c.image_width, c.aspect_ratio) % c.part_num_y = 0
    /\ c.image_width % c.part_num_x = 0

\* a plausible slip: the assertion on sub_pixel_cnt left out
subpixel_assert_mutant(c) == TRUE

\* assert!(self.sub_pixel_cnt >= 1)
subpixel_assert(c) == sub_pixel_cnt_of(c.sample_per_pixel) >= 1

\* the fields initialize() derives
initialized(c) ==
    LET h == image_height_of(c.image_width, c.aspect_ratio)
    IN  [c EXCEPT !.image_height = h,
                  !.sub_pixel_cnt = sub_pixel_cnt_of(c.sample_per_pixel),
                  !.part_height = h \div c.part_num_y,
                  !.part_width = c.image_width \div c.part_num_x]

NumTiles == cam.part_num_y * cam.part_num_x

\* a plausible slip: the loops nested the other way round (x outside)
TileY_mutant(t) == t % cam.part_num_y

\* the loop variables y, x of the tile with row-major index t
TileY(t) == t \div cam.part_num_x
TileX(t) == t % cam.part_num_x

\* ymin, ymax, xmin, xmax as render computes them for the tile
TileRect(t) ==
    [ymin |-> TileY(t) * cam.part_height, ymax |-> (TileY(t) + 1) * cam.part_height,
     xmin |-> TileX(t) * cam.part_width, xmax |-> (TileX(t) + 1) * cam.part_width]

\* the pixels (i, j) that render_sub's loops visit for the tile
TilePixels(t) ==
    LET rc == TileRect(t)
    IN  {<<i, j>> : i \in rc.xmin..(rc.xmax - 1), j \in rc.ymin..(rc.ymax - 1)}

TileSize(t) == cam.part_height * cam.part_width

\* the k-th pixel (from 0) of the loops for j in ymin..ymax, for i in xmin..xmax
TilePixelAt(t, k) ==
    LET rc == TileRect(t)
    IN  <<rc.xmin + (k % cam.part_width), rc.ymin + (k \div cam.part_width)>>

\* sample_per_pixel as the caller sets it
SampleCountSet == {0, 2}

RenderInit ==
    /\ \E w \in 0..MaxImageWidth, a \in AspectSet, spp \in SampleCountSet,
          px, py \in 0..MaxTiles, lim \in 1..MaxThreadLimit :
          /\ px * py <= MaxTiles
          /\ cam = [image_width |-> w, aspect_ratio |-> a, image_height |-> 0,
                    sample_per_pixel |-> spp, sub_pixel_cnt |-> 1,
                    part_num_x |-> px, part_num_y |-> py,
                    part_height |-> 0, part_width |-> 0, thread_limit |-> lim]
    /\ mainpc = "start"
    /\ cur = 0
    /\ thread_count = 0
    /\ wpc = [t \in TileIds |-> "unspawned"]
    /\ traced = [t \in TileIds |-> 0]
    /\ written = [t \in TileIds |-> 0]
    /\ locks = [t \in TileIds |-> 0]
    /\ img_mtx = NoTile
    /\ img = [p \in PixelIds |-> <<>>]

\* render: self.initialize(), then the image and the counter are created
Initialize ==
    /\ mainpc = "start"
    /\ IF subpixel_assert(cam) /\ partition_asserts(cam)
       THEN /\ cam' = initialized(cam)
            /\ mainpc' = "loop"
       ELSE /\ mainpc' = "aborted"
            /\ UNCHANGED cam
    /\ UNCHANGED <<cur, thread_count, wpc, traced, written, locks, img_mtx, img, geomVars>>

\* a plausible slip: <= for <
below_limit_mutant(count, limit) == count <= limit

\* thread_count.load(SeqCst) < thread_limit
below_limit(count, limit) == count < limit

\* the while condition of the admission loop, for the tile at cur
MainLoad ==
    /\ mainpc = "loop"
    /\ cur < NumTiles
    /\ mainpc' = IF below_limit(thread_count, cam.thread_limit) THEN "inc" ELSE "wait_enter"
    /\ UNCHANGED <<cam, cur, thread_count, wpc, traced, written, locks, img_mtx, img, geomVars>>

\* the counter was read as not below the limit: lock_for_condv.lock() and
\* Condvar::wait, which blocks
MainWait ==
    /\ mainpc = "wait_enter"
    /\ mainpc' = "waiting"
    /\ UNCHANGED <<cam, cur, thread_count, wpc, traced, written, locks, img_mtx, img, geomVars>>

\* Condvar::wait may return without a notification
MainSpuriousWake ==
    /\ mainpc = "waiting"
    /\ mainpc' = "loop"
    /\ UNCHANGED <<cam, cur, thread_count, wpc, traced, written, locks, img_mtx, img, geomVars>>

\* a plausible slip: the increment left to the worker thread, so the
\* submitting thread does not count the worker it is about to spawn
MainInc_mutant ==
    /\ mainpc = "inc"
    /\ mainpc' = "spawn"
    /\ UNCHANGED <<cam, cur, thread_count, wpc, traced, written, locks, img_mtx, img, geomVars>>

\* thread_count.fetch_add(1, SeqCst)
MainInc ==
    /\ mainpc = "inc"
    /\ thread_count' = thread_count + 1
    /\ mainpc' = "spawn"
    /\ UNCHANGED <<cam, cur, wpc, traced, written, locks, img_mtx, img, geomVars>>

\* thread_spawner.spawn(..): the tile's worker starts, the loop moves on
MainSpawn ==
    /\ mainpc = "spawn"
    /\ wpc' = [wpc EXCEPT ![cur] = "trace"]
    /\ cur' = cur + 1
    /\ mainpc' = "loop"
    /\ UNCHANGED <<cam, thread_count, traced, written, locks, img_mtx, img, geomVars>>

\* both for loops are over
MainLoopEnd ==
    /\ mainpc = "loop"
    /\ cur = NumTiles
    /\ mainpc' = "join"
    /\ UNCHANGED <<cam, cur, thread_count, wpc, traced, written, locks, img_mtx, img, geomVars>>

\* a plausible slip: the scope left without joining the workers
all_joined_mutant == TRUE

\* crossbeam::thread::scope returns once every spawned thread has finished
all_joined == \A t \in TileIds : wpc[t] \in {"unspawned", "done"}

\* the scope ends and render returns img
MainReturn ==
    /\ mainpc = "join"
    /\ all_joined
    /\ mainpc' = "returned"
    /\ UNCHANGED <<cam, cur, thread_count, wpc, traced, written, locks, img_mtx, img, geomVars>>

\* render_sub: one pixel of the tile traced and accumulated into buffer
WorkerTrace(t) ==
    /\ wpc[t] = "trace"
    /\ traced[t] < TileSize(t)
    /\ traced' = [traced EXCEPT ![t] = @ + 1]
    /\ UNCHANGED <<cam, mainpc, cur, thread_count, wpc, written, locks, img_mtx, img, geomVars>>

\* a plausible slip: the image written without taking the mutex
can_lock_mutant(t) == traced[t] = TileSize(t)

\* img_mtx.lock() comes after the tracing loops, and succeeds when the mutex is free
can_lock(t) == traced[t] = TileSize(t) /\ img_mtx = NoTile

\* let mut img_guard = img_mtx.lock().unwrap()
WorkerLock(t) ==
    /\ wpc[t] = "trace"
    /\ can_lock(t)
    /\ img_mtx' = t
    /\ locks' = [locks EXCEPT ![t] = @ + 1]
    /\ wpc' = [wpc EXCEPT ![t] = "write"]
    /\ UNCHANGED <<cam, mainpc, cur, thread_count, traced, written, img, geomVars>>

\* write_color of the next pixel of the tile
WorkerWrite(t) ==
    /\ wpc[t] = "write"
    /\ written[t] < TileSize(t)
    /\ img' = [img EXCEPT ![TilePixelAt(t, written[t])] = Append(@, t)]
    /\ written' = [written EXCEPT ![t] = @ + 1]
    /\ UNCHANGED <<cam, mainpc, cur, thread_count, wpc, traced, locks, img_mtx, geomVars>>

\* render_sub returns: img_guard is dropped
WorkerUnlock(t) ==
    /\ wpc[t] = "write"
    /\ written[t] = TileSize(t)
    /\ img_mtx' = NoTile
    /\ wpc' = [wpc EXCEPT ![t] = "dec"]
    /\ UNCHANGED <<cam, mainpc, cur, thread_count, traced, written, locks, img, geomVars>>

\* thread_count.fetch_sub(1, SeqCst)
WorkerDec(t) ==
    /\ wpc[t] = "dec"
    /\ thread_count' = thread_count - 1
    /\ wpc' = [wpc EXCEPT ![t] = "notify"]
    /\ UNCHANGED <<cam, mainpc, cur, traced, written, locks, img_mtx, img, geomVars>>

\* thread_number_controller.notify_one(): wakes the submitting thread if it
\* is blocked in wait, and is lost otherwise; the worker then ends
WorkerNotify(t) ==
    /\ wpc[t] = "notify"
    /\ mainpc' = IF mainpc = "waiting" THEN "loop" ELSE mainpc
    /\ wpc' = [wpc EXCEPT ![t] = "done"]
    /\ UNCHANGED <<cam, cur, thread_count, traced, written, locks, img_mtx, img, geomVars>>

MainStep ==
    \/ Initialize
    \/ MainLoad
    \/ MainWait
    \/ MainInc
    \/ MainSpawn
    \/ MainLoopEnd
    \/ MainReturn

WorkerStep(t) ==
    \/ WorkerTrace(t)
    \/ WorkerLock(t)
    \/ WorkerWrite(t)
    \/ WorkerUnlock(t)
    \/ WorkerDec(t)
    \/ WorkerNotify(t)

Next ==
    \/ MainStep
    \/ MainSpuriousWake
    \/ \E t \in TileIds : WorkerStep(t)

Init == RenderInit /\ GeomInit

\* Camera::render
Spec == Init /\ [][Next]_vars

\* Camera::render with the OS scheduler running every thread that can run; a
\* spurious wake-up of Condvar::wait may happen but is never owed
FairSpec ==
    /\ Spec
    /\ WF_vars(MainStep)
    /\ \A t \in TileIds : WF_vars(WorkerStep(t))

\* the renderer is idle while the geometry operations are applied
RenderIdle ==
    /\ cam = [image_width |-> 0, aspect_ratio |-> <<1, 1>>, image_height |-> 0,
              sample_per_pixel |-> 1, sub_pixel_cnt |-> 1,
              part_num_x |-> 0, part_num_y |-> 0,
              part_height |-> 0, part_width |-> 0, thread_limit |-> 1]
    /\ mainpc = "idle"
    /\ cur = 0
    /\ thread_count = 0
    /\ wpc = [t \in TileIds |-> "unspawned"]
    /\ traced = [t \in TileIds |-> 0]
    /\ written = [t \in TileIds |-> 0]
    /\ locks = [t \in TileIds |-> 0]
    /\ img_mtx = NoTile
    /\ img = [p \in PixelIds |-> <<>>]

\* a geometry operation is checked with render not running
GeomOnlyInit == GeomInit /\ RenderIdle

IntervalNext == DoIntervalUnion \/ GeomReset

AABBNext == DoAABBNew \/ DoAABBTwoPoints \/ DoAABBTwoBoxes \/ DoAABBHit \/ GeomReset

FaceNext == DoSetFaceNormal \/ GeomReset

HitNext == DoHitLeaf \/ DoHitScene \/ GeomReset

\* Interval algebra
SpecInterval == GeomOnlyInit /\ [][IntervalNext]_vars

\* AABB constructors
SpecAABB == GeomOnlyInit /\ [][AABBNext]_vars

\* HitRecord::set_face_normal
SpecFace == GeomOnlyInit /\ [][FaceNext]_vars

\* ray/scene intersection
SphereNext == DoHitSphere \/ GeomReset

SpecSphere == GeomOnlyInit /\ [][SphereNext]_vars

TranslateNext == DoHitTranslate \/ GeomReset

SpecTranslate == GeomOnlyInit /\ [][TranslateNext]_vars

SpecHit == GeomOnlyInit /\ [][HitNext]_vars

\* ------------------------------------------------------------------------
\* camera.rs: Camera::ray_color
\* ------------------------------------------------------------------------

\* max_depth ranges over 0..MaxDepth
MaxDepth == 3

\* component-wise product (vec3.rs)
Vec3_component_mul(a, b) == Vec3_new(FMul(a.x, b.x), FMul(a.y, b.y), FMul(a.z, b.z))

\* what one world.hit query and the material calls after it give ray_color:
\* whether the world was hit, the emitted colour, whether scatter returned
\* true, and the attenuation it wrote
Bounce(hit, emitted, scatter, attenuation) ==
    [hit |-> hit, emitted |-> emitted, scatter |-> scatter, attenuation |-> attenuation]

EmittedSet == {Vec3_zero, V(1, 2, 0)}

AttenuationSet == {Vec3_new(<<1, 2>>, <<1, 2>>, <<1, 2>>), V(1, 0, 2)}

BackgroundSet == {Vec3_new(<<7, 10>>, <<4, 5>>, One), V(0, 1, 0)}

\* the outcomes of a query: a miss, an absorbing material, a scattering one
BounceSet ==
    {Bounce(FALSE, Vec3_zero, FALSE, Vec3_zero)}
    \cup {Bounce(TRUE, e, FALSE, Vec3_zero) : e \in EmittedSet}
    \cup {Bounce(TRUE, e, TRUE, a) : e \in EmittedSet, a \in AttenuationSet}

\* Interval::with_bounds(0.001, f64::INFINITY)
ray_color_interval == Interval_with_bounds(<<1, 1000>>, INF)

\* if depth == 0
ray_color_exhausted(depth) == depth = 0

\* a plausible slip: the depth passed on unchanged
ray_color_next_depth_mutant(depth) == depth

\* the depth of the recursive call
ray_color_next_depth(depth) == depth - 1

\* a plausible slip: the emitted colour dropped from the sum
ray_color_combine_mutant(emitted, attenuation, below) ==
    Vec3_component_mul(attenuation, below)

\* color_from_emission + attenuation.component_mul(ray_color(scattered, ..)),
\* the product computed first and the sum from its value
ray_color_combine(emitted, attenuation, below) ==
    CHOOSE sum \in {Vec3_add(emitted, color_from_scatter) :
                       color_from_scatter \in {Vec3_component_mul(attenuation, below)}} : TRUE

\* the activation of ray_color that is running: its depth, the activations
\* waiting for it (frames, innermost last), and what has been observed
\* (queries counts world.hit calls, history lists their outcomes)
RayColorState(pc, depth, frames, value, queries, history) ==
    [pc |-> pc, depth |-> depth, frames |-> frames, value |-> value,
     queries |-> queries, history |-> history]

\* ray_color(r, world, max_depth) is called
DoRayColor ==
    /\ op = "init"
    /\ \E d \in 0..MaxDepth, bg \in BackgroundSet :
        /\ op' = "ray_color"
        /\ args' = [max_depth |-> d, background |-> bg, ray_t |-> ray_color_interval]
        /\ result' = RayColorState("call", d, <<>>, Vec3_zero, 0, <<>>)
        /\ UNCHANGED renderVars

\* the activation after the world answered b
RayColorAfterHit(st, background, b) ==
    IF ~b.hit
    THEN RayColorState("ret", st.depth, st.frames, background,
                       st.queries + 1, Append(st.history, b))
    ELSE IF ~b.scatter
    THEN RayColorState("ret", st.depth, st.frames, b.emitted,
                       st.queries + 1, Append(st.history, b))
    ELSE RayColorState("call", ray_color_next_depth(st.depth), Append(st.frames, b),
                       st.value, st.queries + 1, Append(st.history, b))

\* one activation from its entry to its return or to its recursive call
RayColorCall ==
    /\ op = "ray_color"
    /\ result.pc = "call"
    /\ IF ray_color_exhausted(result.depth)
       THEN result' = [result EXCEPT !.pc = "ret", !.value = Vec3_zero]
       ELSE \E b \in BounceSet : result' = RayColorAfterHit(result, args.background, b)
    /\ UNCHANGED <<op, args, renderVars>>

\* an activation returns to the one that called it, or to the caller of ray_color
RayColorReturn ==
    /\ op = "ray_color"
    /\ result.pc = "ret"
    /\ IF result.frames = <<>>
       THEN result' = [result EXCEPT !.pc = "done"]
       ELSE \E f \in {result.frames[Len(result.frames)]}, below \in {result.value} :
              result' = [result EXCEPT
                           !.frames = SubSeq(@, 1, Len(@) - 1),
                           !.depth = @ + 1,
                           !.value = ray_color_combine(f.emitted, f.attenuation, below)]
    /\ UNCHANGED <<op, args, renderVars>>

\* the caller has the colour; the next call can start
RayColorReset ==
    /\ op = "ray_color"
    /\ result.pc = "done"
    /\ op' = "init" /\ args' = <<>> /\ result' = <<>>
    /\ UNCHANGED renderVars

ColorNext == DoRayColor \/ RayColorCall \/ RayColorReturn \/ RayColorReset

\* ray_color, every activation of which keeps running
SpecColor == GeomOnlyInit /\ [][ColorNext]_vars /\ WF_vars(ColorNext)

\* ------------------------------------------------------------------------
\* color.rs: write_color
\* ------------------------------------------------------------------------

\* the scale of write_color
ColorScale == 256

\* f64::sqrt is kept to two binary places more than the scale needs
SqrtGrid == 4 * ColorScale

\* f64::sqrt of a colour component: NaN below zero, otherwise the root
\* rounded down to a multiple of 1 / SqrtGrid
FSqrtGrid(a) ==
    IF IsNaN(a) \/ a[1] < 0 THEN NaN
    ELSE IF a[2] = 0 THEN INF
    ELSE Q(FloorSqrt((a[1] * SqrtGrid * SqrtGrid) \div a[2]), SqrtGrid)

\* `as u8`: NaN gives 0, values outside 0..255 saturate, the fraction is dropped
f64_as_u8(x) ==
    IF IsNaN(x) THEN 0
    ELSE IF x[2] = 0 THEN (IF x[1] > 0 THEN 255 ELSE 0)
    ELSE IF x[1] < 0 THEN 0
    ELSE IF x[1] \div x[2] > 255 THEN 255
    ELSE x[1] \div x[2]

\* Interval::with_bounds(0.0, 255.0)
write_color_interval == Interval_with_bounds(Zero, Int2Q(255))

\* a plausible slip: the component scaled by 255, the largest byte
write_color_component_scale_mutant(c) ==
    f64_as_u8(Interval_clamp(write_color_interval, FMul(FSqrtGrid(c), Int2Q(255))))

\* a plausible slip: the square root (the gamma correction) left out
write_color_component_mutant(c) ==
    f64_as_u8(Interval_clamp(write_color_interval, FMul(c, Int2Q(ColorScale))))

\* interval.clamp(c.sqrt() * 256.0) as u8
write_color_component(c) ==
    f64_as_u8(Interval_clamp(write_color_interval, FMul(FSqrtGrid(c), Int2Q(ColorScale))))

\* the image::Rgb stored in the pixel
write_color(pixel_color) ==
    <<write_color_component(pixel_color.x),
      write_color_component(pixel_color.y),
      write_color_component(pixel_color.z)>>

\* colour components given to write_color
ComponentSet ==
    {Zero, <<1, 100>>, <<1, 16>>, <<1, 4>>, <<1, 2>>, <<7, 10>>, <<4, 5>>,
     <<99, 100>>, <<399, 400>>, One, <<101, 100>>, Int2Q(2), Int2Q(4), INF}

\* write_color(pixel_color, img, i, j)
DoWriteColor ==
    /\ op = "init"
    /\ \E x \in ComponentSet, y \in ComponentSet, z \in ComponentSet :
        /\ op' = "write_color"
        /\ args' = [pixel_color |-> Vec3_new(x, y, z)]
        /\ result' = [pixel |-> write_color(Vec3_new(x, y, z))]
        /\ UNCHANGED renderVars

\* ------------------------------------------------------------------------
\* camera.rs: Camera::render_sub, one pixel
\* ------------------------------------------------------------------------

MaxSamples == 4

\* values returned by ray_color for the samples of the pixel
RadianceSet == {Vec3_new(<<7, 10>>, <<4, 5>>, One), Vec3_new(<<1, 4>>, Zero, Int2Q(4))}

\* the loops over one pixel: the SSAA counters sub_y, sub_x, the counter k of
\* the loop without SSAA, the pixel's buffer entry, the samples added so far
\* (with the cell each was taken for) and what write_color was given and stored
PixelState(pc, sub_y, sub_x, k, buffer, samples, passed, pixel) ==
    [pc |-> pc, sub_y |-> sub_y, sub_x |-> sub_x, k |-> k, buffer |-> buffer,
     samples |-> samples, passed |-> passed, pixel |-> pixel]

\* render_sub reaches pixel (i, j); the camera has been initialized
DoRenderPixel ==
    /\ op = "init"
    /\ \E spp \in 1..MaxSamples, ssaa \in BOOLEAN :
        /\ op' = "render_pixel"
        /\ args' = [sample_per_pixel |-> spp, enable_ssaa |-> ssaa,
                    sub_pixel_cnt |-> sub_pixel_cnt_of(spp)]
        /\ result' = PixelState("trace", 0, 0, 0, Vec3_zero, <<>>, Vec3_zero, <<>>)
        /\ UNCHANGED renderVars

\* sample_per_pixel as the caller sets it: small counts, the default 100, and
\* counts next to the square of 500
SamplePerPixelSet == (1..MaxSamples) \cup {100, 249001, 250000, 250001}

\* initialize() computes sub_pixel_cnt
DoSubPixelCnt ==
    /\ op = "init"
    /\ \E spp \in SamplePerPixelSet :
        /\ op' = "sub_pixel_cnt"
        /\ args' = [sample_per_pixel |-> spp]
        /\ result' = sub_pixel_cnt_of(spp)
        /\ UNCHANGED renderVars

\* a plausible slip: the SSAA loops stop after sample_per_pixel samples
pixel_traced_mutant ==
    IF args.enable_ssaa
    THEN result.sub_y * args.sub_pixel_cnt + result.sub_x >= args.sample_per_pixel
    ELSE result.k >= args.sample_per_pixel

\* the sampling loops of the pixel have run out
pixel_traced ==
    IF args.enable_ssaa
    THEN result.sub_y >= args.sub_pixel_cnt
    ELSE result.k >= args.sample_per_pixel

\* one iteration of the innermost loop: buffer[..][..] += ray_color(..)
PixelSample ==
    /\ op = "render_pixel"
    /\ result.pc = "trace"
    /\ ~pixel_traced
    /\ \E c \in RadianceSet :
        result' =
          IF args.enable_ssaa
          THEN [result EXCEPT
                  !.buffer = Vec3_add(@, c),
                  !.samples = Append(@, [sub_y |-> result.sub_y, sub_x |-> result.sub_x, color |-> c]),
                  !.sub_x = IF @ + 1 < args.sub_pixel_cnt THEN @ + 1 ELSE 0,
                  !.sub_y = IF result.sub_x + 1 < args.sub_pixel_cnt THEN @ ELSE @ + 1]
          ELSE [result EXCEPT
                  !.buffer = Vec3_add(@, c),
                  !.samples = Append(@, [sub_y |-> 0, sub_x |-> 0, color |-> c]),
                  !.k = @ + 1]
    /\ UNCHANGED <<op, args, renderVars>>

\* write_color(buffer[..][..] / (sample_per_pixel as f64), ..)
PixelWrite ==
    /\ op = "render_pixel"
    /\ result.pc = "trace"
    /\ pixel_traced
    /\ \E value \in {Vec3_div(result.buffer, Int2Q(args.sample_per_pixel))} :
        result' = [result EXCEPT !.pc = "done", !.passed = value, !.pixel = write_color(value)]
    /\ UNCHANGED <<op, args, renderVars>>

\* the pixel is stored, or write_color or initialize has returned
PixelReset ==
    /\ \/ op \in {"write_color", "sub_pixel_cnt"}
       \/ op = "render_pixel" /\ result.pc = "done"
    /\ op' = "init" /\ args' = <<>> /\ result' = <<>>
    /\ UNCHANGED renderVars

PixelNext == DoWriteColor \/ DoSubPixelCnt \/ DoRenderPixel \/ PixelSample \/ PixelWrite \/ PixelReset

SpecPixel == GeomOnlyInit /\ [][PixelNext]_vars

\* ------------------------------------------------------------------------
\* bvh.rs: BVHNode::new, one activation of init_from_list per step
\* ------------------------------------------------------------------------

\* the longest list given to BVHNode::new
MaxSpan == 4

\* activations the call stack has room for
MaxCallDepth == 5

\* the lists given to BVHNode::new: every sequence of leaves, the empty one
\* included (an object may be added to a list more than once)
BuildSet == UNION {[1..n -> LeafIds] : n \in 0..MaxSpan}

\* a plausible slip: the split rounded up
bvh_mid_mutant(object_span) == (object_span + 1) \div 2

\* let mid = object_span / 2
bvh_mid(object_span) == object_span \div 2

\* Self { left, right, bounding_box }
BVHNode_of(left, right, bounding_box) ==
    [kind |-> "bvh", left |-> left, right |-> right, bounding_box |-> bounding_box]

\* an activation of init_from_list: its span, the box computed from it, how
\* far it has come ("entry", "left": the first recursive call is running,
\* "right": the second one is), and the left child once it is built
BVHFrame(vec, stage, left) ==
    [vec |-> vec, bounding_box |-> SpanBox(vec, AABB_EMPTY), stage |-> stage, left |-> left]

\* the state of BVHNode::new: the activations (innermost last) and the node
\* the last finished activation returned
BVHBuildState(pc, stack, ret) == [pc |-> pc, stack |-> stack, ret |-> ret]

\* BVHNode::new(list): init_from_list(list.objects, length)
DoBVHNew ==
    /\ op = "init"
    /\ \E ids \in BuildSet :
        /\ op' = "bvh_new"
        /\ args' = [objects |-> [i \in 1..Len(ids) |-> LeafTable[ids[i]]]]
        /\ result' = BVHBuildState("run",
                        <<BVHFrame([i \in 1..Len(ids) |-> LeafTable[ids[i]]], "entry", <<>>)>>,
                        <<>>)
        /\ UNCHANGED renderVars

\* the stack with its innermost activation replaced by f and a new activation
\* for the span vec on top of it
BVHPush(stack, f, vec) ==
    Append([stack EXCEPT ![Len(stack)] = f], BVHFrame(vec, "entry", <<>>))

\* an activation from its entry: spans of one and two objects return their
\* node, any other span is sorted and the first recursive call is made
BVHEnter ==
    /\ op = "bvh_new"
    /\ result.pc = "run"
    /\ result.stack # <<>>
    /\ \E f \in {result.stack[Len(result.stack)]} :
        /\ f.stage = "entry"
        /\ \E sorted \in {sort_by_box(f.vec, AABB_longest_axis(f.bounding_box))} :
            result' =
              IF Len(f.vec) = 1
              THEN BVHBuildState("run", SubSeq(result.stack, 1, Len(result.stack) - 1),
                                 BVHNode_of(f.vec[1], f.vec[1], f.bounding_box))
              ELSE IF Len(f.vec) = 2
              THEN BVHBuildState("run", SubSeq(result.stack, 1, Len(result.stack) - 1),
                                 BVHNode_of(f.vec[1], f.vec[2], f.bounding_box))
              ELSE IF Len(result.stack) >= MaxCallDepth
              THEN BVHBuildState("overflow", result.stack, <<>>)
              ELSE BVHBuildState("run",
                      BVHPush(result.stack, [f EXCEPT !.vec = sorted, !.stage = "left"],
                              SubSeq(sorted, 1, bvh_mid(Len(sorted)))),
                      <<>>)
    /\ UNCHANGED <<op, args, renderVars>>

\* the first recursive call has returned: the second one is made
BVHAfterLeft ==
    /\ op = "bvh_new"
    /\ result.pc = "run"
    /\ result.stack # <<>>
    /\ \E f \in {result.stack[Len(result.stack)]} :
        /\ f.stage = "left"
        /\ result' =
              IF Len(result.stack) >= MaxCallDepth
              THEN BVHBuildState("overflow", result.stack, <<>>)
              ELSE BVHBuildState("run",
                      BVHPush(result.stack, [f EXCEPT !.left = result.ret, !.stage = "right"],
                              SubSeq(f.vec, bvh_mid(Len(f.vec)) + 1, Len(f.vec))),
                      <<>>)
    /\ UNCHANGED <<op, args, renderVars>>

\* the second recursive call has returned: the activation returns its node
BVHAfterRight ==
    /\ op = "bvh_new"
    /\ result.pc = "run"
    /\ result.stack # <<>>
    /\ \E f \in {result.stack[Len(result.stack)]} :
        /\ f.stage = "right"
        /\ result' = BVHBuildState("run", SubSeq(result.stack, 1, Len(result.stack) - 1),
                                   BVHNode_of(f.left, result.ret, f.bounding_box))
    /\ UNCHANGED <<op, args, renderVars>>

\* the outermost activation has returned: BVHNode::new returns its node
BVHReturn ==
    /\ op = "bvh_new"
    /\ result.pc = "run"
    /\ result.stack = <<>>
    /\ result' = [result EXCEPT !.pc = "done"]
    /\ UNCHANGED <<op, args, renderVars>>

\* the caller has the node, or the process has died of the stack overflow
BVHReset ==
    /\ op = "bvh_new"
    /\ result.pc \in {"done", "overflow"}
    /\ op' = "init" /\ args' = <<>> /\ result' = <<>>
    /\ UNCHANGED renderVars

BVHNext == DoBVHNew \/ BVHEnter \/ BVHAfterLeft \/ BVHAfterRight \/ BVHReturn \/ BVHReset

SpecBVH == GeomOnlyInit /\ [][BVHNext]_vars

\* ------------------------------------------------------------------------
\* hittable.rs: ConstantMedium
\* ------------------------------------------------------------------------

\* ConstantMedium::from_color
ConstantMedium_from_color(boundary, density) ==
    [kind |-> "medium", boundary |-> boundary,
     neg_inv_density |-> FDiv(Neg(One), density),
     phase_function |-> "isotropic",
     bounding_box |-> Hittable_bounding_box(boundary)]

\* a plausible slip: a scattering point exactly on the far crossing is rejected
ConstantMedium_too_far_mutant(hit_distance, distance_inside_boundary) ==
    FGe(hit_distance, distance_inside_boundary)

\* if hit_distance > distance_inside_boundary { return false; }
ConstantMedium_too_far(hit_distance, distance_inside_boundary) ==
    FGt(hit_distance, distance_inside_boundary)

\* the record of a scattering event at parameter t
ConstantMedium_record(cm, r, rec, t) ==
    HitResult(TRUE,
        [rec EXCEPT !.t = t, !.p = Ray_at(r, t), !.normal = V(1, 0, 0),
                    !.front_face = TRUE, !.mat = cm.phase_function])

\* rec1.t has been clamped to 0: the draw against the distance inside
ConstantMedium_hit_inside(cm, r, rec, t1, t2, ray_length, hit_distance) ==
    IF ConstantMedium_too_far(hit_distance, FMul(FSub(t2, t1), ray_length))
    THEN HitResult(FALSE, rec)
    ELSE ConstantMedium_record(cm, r, rec, FAdd(t1, FDiv(hit_distance, ray_length)))

\* rec1.t and rec2.t have been clamped to ray_t; ln_random is
\* random_f64_0_1().ln(), a value in [-inf, 0)
ConstantMedium_hit_clamped(cm, r, rec, ln_random, t1, t2) ==
    IF FGe(t1, t2) THEN HitResult(FALSE, rec)
    ELSE ConstantMedium_hit_inside(cm, r, rec,
            IF FLt(t1, Zero) THEN Zero ELSE t1, t2,
            Vec3_length(r.b_direction), FMul(cm.neg_inv_density, ln_random))

\* the second boundary.hit has returned hit2
ConstantMedium_hit_rec2(cm, r, ray_t, rec, ln_random, t1, hit2) ==
    IF hit2.exit THEN HitExit(rec)
    ELSE IF ~hit2.hit THEN HitResult(FALSE, rec)
    ELSE ConstantMedium_hit_clamped(cm, r, rec, ln_random,
            IF FLt(t1, ray_t.min) THEN ray_t.min ELSE t1,
            IF FGt(hit2.rec.t, ray_t.max) THEN ray_t.max ELSE hit2.rec.t)

\* the first boundary.hit has returned hit1
ConstantMedium_hit_rec1(cm, r, ray_t, rec, ln_random, hit1) ==
    IF hit1.exit THEN HitExit(rec)
    ELSE IF ~hit1.hit THEN HitResult(FALSE, rec)
    ELSE ConstantMedium_hit_rec2(cm, r, ray_t, rec, ln_random, hit1.rec.t,
            Hittable_hit(cm.boundary, r,
                Interval_with_bounds(FAdd(hit1.rec.t, <<1, 10000>>), INF), HitRecord_new))

\* ConstantMedium::hit
ConstantMedium_hit(cm, r, ray_t, rec, ln_random) ==
    ConstantMedium_hit_rec1(cm, r, ray_t, rec, ln_random,
        Hittable_hit(cm.boundary, r, Interval_UNIVERSE, HitRecord_new))

\* the caller's record: fresh, or holding the best hit found so far
PriorRecord ==
    [HitRecord_new EXCEPT !.p = V(0, 0, 4), !.normal = V(0, 0, -1), !.t = Int2Q(7),
                          !.u = UVLit(One), !.v = UVLit(One),
                          !.front_face = FALSE, !.mat = "prior"]

RecordSet == {HitRecord_new, PriorRecord}

\* densities, and the logarithms of the draws: -inf for a draw of 0
DensitySet == {One, Int2Q(2)}

LnRandomSet == {NEG_INF, Int2Q(-4), Int2Q(-2), Int2Q(-1), <<-1, 2>>}

\* rays towards, inside and away from the boundary
MediumRaySet ==
    {Ray_new(o, d, Zero) : o \in {V(0, 0, -3), V(0, 0, 0), V(-3, 0, 0), V(-3, 1, 0)},
                           d \in {V(0, 0, 1), V(0, 0, 2), V(0, 0, -1), V(1, 0, 0)}}

MediumIntervalSet ==
    RayIntervalSet \cup {Interval_UNIVERSE, Interval_with_bounds(Int2Q(-5), Int2Q(5)),
                         Interval_with_bounds(Int2Q(-5), Int2Q(-3))}

\* ConstantMedium::hit on a medium bounded by the unit sphere
DoHitMedium ==
    /\ op = "init"
    /\ \E density \in DensitySet, r \in MediumRaySet, ray_t \in MediumIntervalSet,
          ln_random \in LnRandomSet, rec \in RecordSet :
        /\ HitExact(ConstantMedium_from_color(LeafTable[1], density), r)
        /\ op' = "hit_medium"
        /\ args' = [medium |-> ConstantMedium_from_color(LeafTable[1], density),
                    r |-> r, ray_t |-> ray_t, ln_random |-> ln_random, rec |-> rec]
        /\ result' = ConstantMedium_hit(ConstantMedium_from_color(LeafTable[1], density),
                                        r, ray_t, rec, ln_random)
        /\ UNCHANGED renderVars

\* one object of each variant that hit dispatches to
VariantSet ==
    {LeafTable[1], LeafTable[3], ListTable[<<1, 3>>], BVHTable[<<1, 2>>], BVHTable[<<3, 4>>],
     Translate_new(LeafTable[1], V(1, 0, 0)), Translate_new(LeafTable[3], V(0, 0, 1)),
     RotateY_new(LeafTable[3], Zero, One), RotateY_new(LeafTable[1], <<3, 5>>, <<4, 5>>),
     RotateY_new(BVHTable[<<1, 3>>], Neg(One), Zero)}

\* Hittable::hit on a record the caller already holds
DoHitRecord ==
    /\ op = "init"
    /\ \E obj \in VariantSet, r \in RaySet, ray_t \in RayIntervalSet, rec \in RecordSet :
        /\ HitExact(obj, r)
        /\ op' = "hit_record"
        /\ args' = [obj |-> obj, r |-> r, ray_t |-> ray_t, rec |-> rec]
        /\ result' = Hittable_hit(obj, r, ray_t, rec)
        /\ UNCHANGED renderVars

MediumNext == DoHitMedium \/ GeomReset

RecordNext == DoHitRecord \/ DoHitMedium \/ GeomReset

SpecMedium == GeomOnlyInit /\ [][MediumNext]_vars

\* every variant's hit on a record that may hold an earlier hit
SpecRecord == GeomOnlyInit /\ [][RecordNext]_vars

\* ------------------------------------------------------------------------
\* material.rs: Lambertian::scatter;  util.rs: random_in_unit_sphere
\* ------------------------------------------------------------------------

\* Vec3::near_zero: all components below 1e-8 in magnitude
Vec3_near_zero(a) ==
    /\ FLt(FAbs(a.x), <<1, 100000000>>)
    /\ FLt(FAbs(a.y), <<1, 100000000>>)
    /\ FLt(FAbs(a.z), <<1, 100000000>>)

\* random_in_unit_sphere once the loop has drawn a point p with
\* p.squared_length() < 1
random_in_unit_sphere(p) ==
    IF Vec3_near_zero(Vec3_unit(p)) THEN Vec3_zero ELSE Vec3_unit(p)

\* Lambertian::scatter; albedo is self.tex.value(rec.u, rec.v, rec.p)
Lambertian_scatter(albedo, r_in, rec, p) ==
    [ret |-> TRUE,
     scattered |-> Ray_new(rec.p, Vec3_add(rec.normal, Vec3_unit(random_in_unit_sphere(p))),
                           r_in.time),
     attenuation |-> albedo]

\* unit normals along the axes; points the rejection loop accepts
NormalSet == {V(1, 0, 0), V(-1, 0, 0), V(0, 1, 0), V(0, -1, 0), V(0, 0, 1), V(0, 0, -1)}

UnitBallSet ==
    {p \in {Vec3_new(<<x, 2>>, <<y, 2>>, <<z, 2>>) : x, y, z \in {-1, 0, 1}} :
        FLt(Vec3_squared_length(p), One) /\ SqrtExact(Vec3_squared_length(p))}

\* Lambertian::scatter at a hit with the given normal
DoScatter ==
    /\ op = "init"
    /\ \E normal \in NormalSet, p \in UnitBallSet, at \in OriginSet, time \in TimeSet :
        /\ op' = "scatter"
        /\ args' = [rec |-> [HitRecord_new EXCEPT !.p = at, !.normal = normal],
                    r_in |-> Ray_new(V(0, 0, -3), V(0, 0, 1), time), p |-> p]
        /\ result' = Lambertian_scatter(V(1, 1, 1), Ray_new(V(0, 0, -3), V(0, 0, 1), time),
                                        [HitRecord_new EXCEPT !.p = at, !.normal = normal], p)
        /\ UNCHANGED renderVars

ScatterNext == DoScatter \/ GeomReset

SpecScatter == GeomOnlyInit /\ [][ScatterNext]_vars

\* ------------------------------------------------------------------------
\* hittable.rs: a HittableList under new, add and clear
\* ------------------------------------------------------------------------

\* HittableList::new
DoListNew ==
    /\ op = "init"
    /\ op' = "list"
    /\ args' = [call |-> "new"]
    /\ result' = HittableList_new
    /\ UNCHANGED renderVars

\* list.add(object)
DoListAdd ==
    /\ op = "list"
    /\ Len(result.objects) < MaxObjects
    /\ \E i \in LeafIds :
        /\ args' = [call |-> "add", object |-> i]
        /\ result' = HittableList_add(result, LeafTable[i])
    /\ UNCHANGED <<op, renderVars>>

\* list.clear() on a list that holds at least one object
DoListClear ==
    /\ op = "list"
    /\ result.objects # <<>>
    /\ args' = [call |-> "clear"]
    /\ result' = HittableList_clear(result)
    /\ UNCHANGED <<op, renderVars>>

ListNext == DoListNew \/ DoListAdd \/ DoListClear \/ GeomReset

SpecList == GeomOnlyInit /\ [][ListNext]_vars

\* ------------------------------------------------------------------------
\* Claims
\* ------------------------------------------------------------------------

Tiles == 0..(NumTiles - 1)

RenderRunning == mainpc \in {"loop", "wait_enter", "waiting", "inc", "spawn", "join", "returned"}

\* the workers the submission loop has admitted (it read a counter value below
\* the limit for them) that have not yet executed fetch_sub
Outstanding ==
    Cardinality({t \in TileIds : wpc[t] \in {"trace", "write", "dec"}})
    + (IF mainpc \in {"inc", "spawn"} THEN 1 ELSE 0)

\* C1: in every reachable state of render, the number of tile workers admitted
\* by the submission loop that have not yet decremented the counter is at most
\* thread_limit, and the counter never exceeds thread_limit.
C1_BoundedOutstanding ==
    RenderRunning =>
        /\ thread_count <= cam.thread_limit
        /\ Outstanding <= cam.thread_limit

\* C1 witness: the pool is full and the submission loop is blocked with tiles left
C1_Witness ==
    /\ mainpc = "waiting"
    /\ cur < NumTiles
    /\ thread_count = cam.thread_limit
    /\ Outstanding = cam.thread_limit

\* C2: with thread_limit >= 1 and a valid tile grid, under fair scheduling of
\* the submission loop and of every worker, render always runs to completion:
\* the submission loop never stays blocked forever in the wait.
C2_RenderCompletes ==
    (mainpc = "loop" /\ cam.thread_limit >= 1 /\ cam.image_width >= 1) ~> (mainpc = "returned")

\* the tile whose rectangle contains pixel (i, j)
TileOfPixel(p) == (p[2] \div cam.part_height) * cam.part_num_x + (p[1] \div cam.part_width)

ImageGrid == (0..(cam.image_width - 1)) \X (0..(cam.image_height - 1))

\* C3: when render returns the image, every tile worker has finished and every
\* pixel of the image has been written exactly once, by the worker of the tile
\* containing it.
C3_ReturnedImageComplete ==
    mainpc = "returned" =>
        /\ \A t \in Tiles : wpc[t] = "done"
        /\ \A p \in ImageGrid : img[p] = <<TileOfPixel(p)>>
        /\ \A p \in PixelIds \ ImageGrid : img[p] = <<>>

\* C3 witness: render has returned an image of four tiles
C3_Witness ==
    /\ mainpc = "returned"
    /\ NumTiles = 4
    /\ \A p \in ImageGrid : Len(img[p]) = 1

\* C4: each tile worker acquires the image mutex exactly once, only after it
\* has traced every pixel of its tile, writes all its tile pixels while holding
\* it, and then releases it; no two workers hold the mutex, no worker writes
\* the image without holding it, and no worker traces while holding it.
C4_MutexDiscipline ==
    /\ Cardinality({t \in TileIds : wpc[t] = "write"}) <= 1
    /\ \A t \in TileIds :
        /\ locks[t] <= 1
        /\ (wpc[t] = "write") <=> (img_mtx = t)
        /\ wpc[t] = "write" => (locks[t] = 1 /\ traced[t] = TileSize(t))
        /\ wpc[t] = "trace" => (locks[t] = 0 /\ written[t] = 0)
        /\ wpc[t] \in {"dec", "notify", "done"} =>
              (locks[t] = 1 /\ written[t] = TileSize(t) /\ traced[t] = TileSize(t))
        /\ written[t] > 0 => locks[t] = 1
    /\ \A p \in PixelIds : Len(img[p]) <= 1

\* C4 witness: one worker is copying its tile under the mutex while another,
\* done tracing, waits for it
C4_Witness ==
    \E t1, t2 \in TileIds :
        /\ t1 # t2
        /\ wpc[t1] = "write" /\ written[t1] > 0 /\ img_mtx = t1
        /\ wpc[t2] = "trace" /\ traced[t2] = TileSize(t2)

\* C5: after initialize() succeeds, the part_num_y x part_num_x tile rectangles
\* handed to the workers all have the same size, are pairwise disjoint, and
\* their union is exactly the image_width x image_height pixel grid.
C5_TilesPartitionImage ==
    RenderRunning =>
        /\ \A t1, t2 \in Tiles :
              /\ Cardinality(TilePixels(t1)) = Cardinality(TilePixels(t2))
              /\ TileRect(t1).ymax - TileRect(t1).ymin = TileRect(t2).ymax - TileRect(t2).ymin
              /\ TileRect(t1).xmax - TileRect(t1).xmin = TileRect(t2).xmax - TileRect(t2).xmin
              /\ t1 # t2 => TilePixels(t1) \cap TilePixels(t2) = {}
        /\ UNION {TilePixels(t) : t \in Tiles} = ImageGrid

\* C5 witness: initialize() has succeeded with two tiles of two pixels each
C5_Witness ==
    /\ mainpc = "loop"
    /\ NumTiles = 2
    /\ cam.part_height * cam.part_width = 2

\* C6: for every non-empty set of leaves, every ray and every interval,
\* BVHNode::hit on the BVH built from the leaves returns the same boolean and
\* the same hit record as HittableList::hit scanning the same leaves.
C6_BVHEqualsLinearScan ==
    op = "hit_scene" =>
        /\ result.bvh.exit = result.list.exit
        /\ result.bvh.hit = result.list.hit
        /\ result.bvh.rec = result.list.rec

\* C7: whenever hit returns true, the recorded t lies strictly inside the
\* interval: tmin < rec.t < tmax.
C7_HitStrictlyInside ==
    /\ op = "hit_leaf" =>
          (result.hit => Interval_surrounds(args.ray_t, result.rec.t))
    /\ op = "hit_scene" =>
          /\ result.list.hit => Interval_surrounds(args.ray_t, result.list.rec.t)
          /\ result.bvh.hit => Interval_surrounds(args.ray_t, result.bvh.rec.t)

\* C8: after set_face_normal(ray, n): front_face is true exactly when
\* ray.direction . n < 0, rec.normal is n when front_face and -n otherwise,
\* and ray.direction . rec.normal <= 0.
C8_FaceNormalAgainstRay ==
    op = "set_face_normal" =>
        LET dn == Vec3_dot(args.r.b_direction, args.outward_normal)
        IN  /\ result.front_face = (dn[1] < 0)
            /\ result.front_face => result.normal = args.outward_normal
            /\ ~result.front_face => result.normal = Vec3_neg(args.outward_normal)
            /\ Vec3_dot(args.r.b_direction, result.normal)[1] <= 0

\* C8 witness: a back-face hit, where the stored normal is the flipped one
C8_Witness ==
    /\ op = "set_face_normal"
    /\ ~result.front_face
    /\ result.normal # args.outward_normal
    /\ Vec3_dot(args.r.b_direction, result.normal)[1] < 0

\* C9 as stated: A.union(B).contains(x) holds if and only if A.contains(x) or
\* B.contains(x).
C9_UnionContainsIff ==
    op = "interval_union" => (result.in_union <=> (result.in_a \/ result.in_b))

\* C9 amended: A.contains(x) or B.contains(x) implies A.union(B).contains(x);
\* the converse holds when A and B are both non-empty (min <= max) and meet
\* (A.min <= B.max and B.min <= A.max).
C9_UnionContainsHull ==
    op = "interval_union" =>
        /\ (result.in_a \/ result.in_b) => result.in_union
        /\ (/\ FLe(args.a.min, args.a.max) /\ FLe(args.b.min, args.b.max)
            /\ FLe(args.a.min, args.b.max) /\ FLe(args.b.min, args.a.max)
            /\ result.in_union)
           => (result.in_a \/ result.in_b)

\* C9 witness: two finite overlapping intervals and a point of the second only
C9_Witness ==
    /\ op = "interval_union"
    /\ IsFinite(args.a.min) /\ IsFinite(args.a.max)
    /\ IsFinite(args.b.min) /\ IsFinite(args.b.max)
    /\ FLt(args.a.min, args.a.max) /\ FLt(args.b.min, args.b.max)
    /\ FLt(args.a.min, args.b.min) /\ FLe(args.b.min, args.a.max)
    /\ FLt(args.a.max, args.b.max)
    /\ result.in_b /\ ~result.in_a /\ result.in_union

AABB_sides_at_least(b, delta) ==
    /\ FGe(Interval_size(b.x), delta)
    /\ FGe(Interval_size(b.y), delta)
    /\ FGe(Interval_size(b.z), delta)

\* C10: every AABB produced by a constructor (new, new_two_points,
\* new_two_boxes), for any arguments including zero-thickness and EMPTY ones,
\* has every one of its three sides of size >= 1e-4.
C10_SidesPadded ==
    op \in {"aabb_new", "aabb_new_two_points", "aabb_new_two_boxes"} =>
        AABB_sides_at_least(result, PadDelta)

\* the reference recursion over the outcomes h of the successive world.hit
\* queries: the colour, and how many outcomes it consumed (-1: it would have
\* queried the world once more than was observed)
RECURSIVE ray_color_reference(_, _, _)
ray_color_reference(h, depth, background) ==
    IF depth = 0 THEN [value |-> Vec3_zero, used |-> 0]
    ELSE IF h = <<>> THEN [value |-> Vec3_zero, used |-> -1]
    ELSE IF ~Head(h).hit THEN [value |-> background, used |-> 1]
    ELSE IF ~Head(h).scatter THEN [value |-> Head(h).emitted, used |-> 1]
    ELSE LET below == ray_color_reference(Tail(h), depth - 1, background)
         IN  [value |-> Vec3_add(Head(h).emitted,
                                 Vec3_component_mul(Head(h).attenuation, below.value)),
              used |-> IF below.used < 0 THEN -1 ELSE below.used + 1]

\* C11: ray_color(ray, world, depth) equals the reference recursion: black at
\* depth 0 without querying the world; otherwise the background when world.hit
\* on [0.001, +inf) misses; otherwise emitted when scatter returns false;
\* otherwise emitted + attenuation (.) ray_color(scattered, world, depth - 1).
C11_RayColorIsReference ==
    (op = "ray_color") =>
        /\ args.ray_t = Interval_with_bounds(<<1, 1000>>, INF)
        /\ result.pc = "done" =>
              /\ result.value =
                    ray_color_reference(result.history, args.max_depth, args.background).value
              /\ ray_color_reference(result.history, args.max_depth, args.background).used
                    = result.queries
              /\ Len(result.history) = result.queries
              /\ args.max_depth = 0 => result.queries = 0

\* C11 witness: a call that scattered twice off emitting materials and then missed
C11_Witness ==
    /\ op = "ray_color"
    /\ result.pc = "done"
    /\ result.queries = 3
    /\ result.history[1].scatter /\ result.history[1].emitted # Vec3_zero
    /\ result.history[2].scatter
    /\ ~result.history[3].hit
    /\ result.value # Vec3_zero

\* C12: ray_color started with depth = max_depth terminates after at most
\* max_depth world.hit queries, whatever the world and the random choices
\* answer: the depth decreases by one on each scatter, and the recursion stops
\* at depth 0, at a miss or at a non-scattering material.
C12_RayColorTerminates ==
    /\ [](op = "ray_color" =>
            /\ result.queries <= args.max_depth
            /\ result.depth >= 0
            /\ result.depth + Len(result.frames) = args.max_depth
            /\ result.pc = "call" => result.queries = Len(result.frames)
            /\ result.pc # "call" =>
                  \/ result.queries = args.max_depth
                  \/ ~result.history[Len(result.history)].hit
                  \/ ~result.history[Len(result.history)].scatter)
    /\ ((op = "ray_color") ~> (op = "ray_color" /\ result.pc = "done"))

\* C12 witness: a call that used all of its max_depth queries and returned
C12_Witness ==
    /\ op = "ray_color"
    /\ result.pc = "done"
    /\ args.max_depth = MaxDepth
    /\ result.queries = args.max_depth
    /\ \A i \in 1..Len(result.history) : result.history[i].scatter

\* the components of a pixel colour and of the stored pixel, by channel
Channels == 1..3

ChannelOf(pixel_color, ch) ==
    IF ch = 1 THEN pixel_color.x ELSE IF ch = 2 THEN pixel_color.y ELSE pixel_color.z

\* b is trunc(clamp(sqrt(c) * 256, 0, 255)) for c >= 0, stated without a
\* square root: b is the largest byte with b * b <= 65536 * c
IsGammaByte(c, b) ==
    /\ b \in 0..255
    /\ IF IsInf(c) THEN b = 255
       ELSE /\ b * b * c[2] <= ColorScale * ColorScale * c[1]
            /\ b < 255 => (b + 1) * (b + 1) * c[2] > ColorScale * ColorScale * c[1]

\* C13: write_color stores, for every colour component c >= 0, the byte
\* trunc(clamp(sqrt(c) * 256, 0, 255)); the byte is in 0..255, is 0 for c = 0,
\* is 255 for c = 1, and is monotone non-decreasing in c.
C13_WriteColorGamma ==
    op = "write_color" =>
        /\ \A ch \in Channels :
            /\ IsGammaByte(ChannelOf(args.pixel_color, ch), result.pixel[ch])
            /\ ChannelOf(args.pixel_color, ch) = Zero => result.pixel[ch] = 0
            /\ ChannelOf(args.pixel_color, ch) = One => result.pixel[ch] = 255
        /\ \A ch1 \in Channels, ch2 \in Channels :
            FLe(ChannelOf(args.pixel_color, ch1), ChannelOf(args.pixel_color, ch2))
                => result.pixel[ch1] <= result.pixel[ch2]

\* C13 witness: write_color has stored the pixel of (0, 1, 1/4): bytes 0, 255
\* and 128, the three of them in increasing order of the components
C13_Witness ==
    /\ op = "write_color"
    /\ args.pixel_color = Vec3_new(Zero, One, <<1, 4>>)
    /\ result.pixel = <<0, 255, 128>>

\* the background of the one-pixel example
SkyBlue == Vec3_new(<<7, 10>>, <<4, 5>>, One)

\* the one pixel of an empty scene has been rendered with one sample: the
\* world misses, so the sample is what ray_color returns at a miss with
\* background SkyBlue
OnePixelEmptyScene ==
    /\ op = "render_pixel"
    /\ result.pc = "done"
    /\ args.sample_per_pixel = 1
    /\ Len(result.samples) = 1
    /\ result.samples[1].color =
          ray_color_reference(<<Bounce(FALSE, Vec3_zero, FALSE, Vec3_zero)>>, 1, SkyBlue).value

\* C14 (as stated): an empty scene rendered as one pixel with background
\* (0.7, 0.8, 1.0) and sample_per_pixel = 1 writes the pixel (213, 228, 255).
C14_OnePixelAsStated == OnePixelEmptyScene => result.pixel = <<213, 228, 255>>

\* C14 (amended): the pixel written is (214, 228, 255): sqrt(0.7) * 256 is
\* 214.18.., and the factor is 256, not 255.
C14_OnePixelSkyBlue ==
    OnePixelEmptyScene =>
        /\ result.passed = SkyBlue
        /\ result.pixel = <<214, 228, 255>>

\* C14 witness: the one-sample pixel of the empty scene has been written
\* with supersampling switched on
C14_Witness == OnePixelEmptyScene /\ args.enable_ssaa /\ result.pixel # <<>>

\* C15: if image_height is not divisible by part_num_y, or image_width is not
\* divisible by part_num_x, or sample_per_pixel is 0, render aborts inside
\* initialize(): no tile worker is ever spawned and no pixel is written.
C15_AbortsInInitialize ==
    /\ (/\ mainpc \notin {"idle", "start"}
        /\ \/ cam.sample_per_pixel = 0
           \/ cam.part_num_y # 0
                /\ image_height_of(cam.image_width, cam.aspect_ratio) % cam.part_num_y # 0
           \/ cam.part_num_x # 0 /\ cam.image_width % cam.part_num_x # 0)
       => mainpc = "aborted"
    /\ mainpc = "aborted" =>
        /\ \A t \in TileIds : wpc[t] = "unspawned" /\ traced[t] = 0 /\ written[t] = 0
        /\ \A p \in PixelIds : img[p] = <<>>
        /\ cur = 0 /\ thread_count = 0 /\ img_mtx = NoTile

\* C15 witness: render has aborted for sample_per_pixel = 0 alone, the image
\* dimensions being divisible by a grid of two tiles
C15_Witness ==
    /\ mainpc = "aborted"
    /\ cam.sample_per_pixel = 0
    /\ cam.image_width = 2 /\ cam.part_num_x = 2 /\ cam.part_num_y = 1

\* C16: whenever AABB::hit is called on a box with an axis interval of
\* non-positive size (max <= min, the EMPTY box included), for any ray and any
\* non-empty ray interval, the call ends in the diagnostic-and-abort outcome;
\* it never returns hit or miss for such a box.
C16_EmptyBoxAborts ==
    (/\ op = "aabb_hit"
     /\ AABB_has_empty_axis(args.box)
     /\ FLt(args.ray_t.min, args.ray_t.max))
        => result = "exit"

\* C17: for every sample_per_pixel >= 1, the sub_pixel_cnt computed by
\* initialize() is exactly ceil(sqrt(sample_per_pixel)), i.e. the least
\* integer s with s * s >= sample_per_pixel.
C17_SubPixelCntIsCeilSqrt ==
    (op = "sub_pixel_cnt" /\ args.sample_per_pixel >= 1) =>
        /\ result * result >= args.sample_per_pixel
        /\ (result - 1) * (result - 1) < args.sample_per_pixel

\* the sum of the colours of a sequence of samples
RECURSIVE SumOfSamples(_)
SumOfSamples(samples) ==
    IF samples = <<>> THEN Vec3_zero
    ELSE Vec3_add(SumOfSamples(SubSeq(samples, 1, Len(samples) - 1)),
                  samples[Len(samples)].color)

\* the number of samples the claim gives a pixel
SamplesPerPixel ==
    IF args.enable_ssaa
    THEN args.sub_pixel_cnt * args.sub_pixel_cnt
    ELSE args.sample_per_pixel

\* C18: for every pixel, the value passed to write_color is (the sum of
\* exactly N radiance samples) / sample_per_pixel, where N = sub_pixel_cnt^2
\* with one sample per (sub_x, sub_y) cell when enable_ssaa is true, and
\* N = sample_per_pixel when it is false.
C18_PixelAverage ==
    (op = "render_pixel" /\ result.pc = "done") =>
        /\ Len(result.samples) = SamplesPerPixel
        /\ args.enable_ssaa =>
              \A y, x \in 0..(args.sub_pixel_cnt - 1) :
                  Cardinality({i \in 1..Len(result.samples) :
                                  result.samples[i].sub_y = y /\ result.samples[i].sub_x = x}) = 1
        /\ result.passed = Vec3_div(SumOfSamples(result.samples), Int2Q(args.sample_per_pixel))
        /\ result.pixel = write_color(result.passed)

\* C18 witness: a pixel has been written with SSAA for sample_per_pixel = 3:
\* four samples, one per cell of the 2 x 2 grid, divided by 3
C18_Witness ==
    /\ op = "render_pixel" /\ result.pc = "done"
    /\ args.enable_ssaa /\ args.sample_per_pixel = 3 /\ args.sub_pixel_cnt = 2
    /\ Len(result.samples) = 4
    /\ result.passed = Vec3_div(Vec3_new(<<14, 5>>, <<16, 5>>, Int2Q(4)), Int2Q(3))

\* Translate(Translate(child, v), -v) answered as the child did: the same
\* boolean, on a hit the same t and p, and the same bounding box
TranslateTwiceIsChild ==
    /\ result.twice.exit = result.child.exit
    /\ result.twice.hit = result.child.hit
    /\ result.child.hit =>
          /\ result.twice.rec.t = result.child.rec.t
          /\ result.twice.rec.p = result.child.rec.p
    /\ result.twice_box = result.child_box

LexBefore(y, x, y2, x2) == y < y2 \/ (y = y2 /\ x < x2)

\* the tiles are spawned in the order of their loop variables: the spawned
\* tiles are those before the loop's position, every tile is a cell of the
\* grid, and the earlier of two tiles is the lexicographically smaller one
SpawnedInRowMajorOrder ==
    RenderRunning =>
        /\ \A t \in Tiles : wpc[t] # "unspawned" <=> t < cur
        /\ \A t \in TileIds \ Tiles : wpc[t] = "unspawned"
        /\ \A t \in Tiles : TileY(t) \in 0..(cam.part_num_y - 1) /\ TileX(t) \in 0..(cam.part_num_x - 1)
        /\ \A t, u \in Tiles : t < u <=> LexBefore(TileY(t), TileX(t), TileY(u), TileX(u))

\* a step spawns at most the tile at the loop's position, and a spawned tile
\* is never spawned again
SpawnedOnce ==
    \A t \in TileIds :
        /\ (wpc[t] = "unspawned" /\ wpc'[t] # "unspawned") =>
              /\ t = cur /\ cur' = cur + 1 /\ wpc'[t] = "trace"
              /\ \A u \in TileIds \ {t} : wpc'[u] = wpc[u]
        /\ wpc[t] # "unspawned" => wpc'[t] # "unspawned"

\* C20: tile workers are submitted in row-major order over the grid: the tile
\* (y, x) is spawned before the tile (y', x') exactly when (y, x) precedes
\* (y', x') lexicographically, and each tile is submitted exactly once.
C20_RowMajorSubmission == []SpawnedInRowMajorOrder /\ [][SpawnedOnce]_vars

\* C20 witness: completion out of submission order: on a 2 x 2 grid the
\* tile (1, 0), submitted third, is done while the tile (0, 1), submitted
\* second, is still tracing
C20_Witness ==
    /\ RenderRunning
    /\ cam.part_num_x = 2 /\ cam.part_num_y = 2
    /\ TileY(2) = 1 /\ TileX(2) = 0 /\ TileY(1) = 0 /\ TileX(1) = 1
    /\ wpc[2] = "done" /\ wpc[1] = "trace"

\* C21: for every sphere, static or moving, every ray with time in [0,1] and
\* every successful hit at point p, the outward normal handed to
\* set_face_normal (it is also the argument of get_sphere_uv, kept in rec.u)
\* is (p - c(t)) / r with c(t) the centre at the ray's time, the centre the
\* intersection quadratic used.
C21_NormalFromCentreAtTime ==
    (op = "hit_sphere" /\ result.hit) =>
        result.rec.u.at =
            Vec3_div(Vec3_sub(result.rec.p, Sphere_get_center(args.sphere, args.r.time)),
                     args.sphere.radius)

\* the permutations of 1..n, for the span lengths that occur
PermTable ==
    [n \in 0..MaxSpan |-> {f \in [1..n -> 1..n] : \A i, j \in 1..n : i # j => f[i] # f[j]}]

RangeOf(seq) == {seq[i] : i \in 1..Len(seq)}

\* the smallest and the largest of a non-empty set of finite values
LeastOf(set) == CHOOSE m \in set : \A x \in set : FLe(m, x)

GreatestOf(set) == CHOOSE m \in set : \A x \in set : FLe(x, m)

\* the hull of the objects' boxes on one axis, from the bounds themselves
HullInterval(objs, axis) ==
    Interval_with_bounds(
        LeastOf({AABB_axis_interval(o.bounding_box, axis).min : o \in objs}),
        GreatestOf({AABB_axis_interval(o.bounding_box, axis).max : o \in objs}))

\* no axis of the hull of the objects is longer than this one
IsLongestAxis(objs, axis) ==
    \A other \in 0..2 :
        FGe(Interval_size(HullInterval(objs, axis)), Interval_size(HullInterval(objs, other)))

\* the boxes' minima on the axis do not decrease along the sequence
SortedOnAxis(seq, axis) ==
    \A i \in 1..(Len(seq) - 1) :
        FLe(AABB_axis_interval(seq[i].bounding_box, axis).min,
            AABB_axis_interval(seq[i + 1].bounding_box, axis).min)

\* the objects at the leaves of a tree of BVH nodes
RECURSIVE LeavesOf(_)
LeavesOf(node) ==
    IF node.kind = "bvh" THEN LeavesOf(node.left) \cup LeavesOf(node.right) ELSE {node}

\* node is a BVH over the span vec as the claim describes it
RECURSIVE IsBVHOver(_, _)
IsBVHOver(node, vec) ==
    /\ node.kind = "bvh"
    /\ IF Len(vec) = 1 THEN node.left = vec[1] /\ node.right = vec[1]
       ELSE IF Len(vec) = 2 THEN node.left = vec[1] /\ node.right = vec[2]
       ELSE \E perm \in PermTable[Len(vec)], axis \in 0..2 :
               /\ IsLongestAxis(RangeOf(vec), axis)
               /\ SortedOnAxis([i \in 1..Len(vec) |-> vec[perm[i]]], axis)
               /\ IsBVHOver(node.left, [i \in 1..(Len(vec) \div 2) |-> vec[perm[i]]])
               /\ IsBVHOver(node.right,
                            [i \in 1..(Len(vec) - Len(vec) \div 2) |-> vec[perm[i + Len(vec) \div 2]]])

\* C22: BVHNode::new builds, for a span of n objects: for n = 1 a node whose
\* left and right are both the sole object; for n = 2 a node with left = first
\* and right = second; for n >= 3 a node whose children are BVHs over the
\* first floor(n/2) and the remaining objects after sorting the span by
\* bounding-box minimum on the longest axis of the span's union box; every
\* input object is a leaf of the result and no other leaf exists.
C22_BVHShape ==
    (op = "bvh_new" /\ result.pc = "done") =>
        /\ IsBVHOver(result.ret, args.objects)
        /\ LeavesOf(result.ret) = RangeOf(args.objects)

\* C22 witness: three objects given with the farthest along x first have been
\* built into a node whose left child holds the sphere at the origin alone
\* and whose right child ends with the sphere that was given first
C22_Witness ==
    /\ op = "bvh_new" /\ result.pc = "done"
    /\ args.objects = <<LeafTable[2], LeafTable[1], LeafTable[3]>>
    /\ result.ret.left = BVHNode_of(LeafTable[1], LeafTable[1], LeafTable[1].bounding_box)
    /\ result.ret.right.left = LeafTable[3]
    /\ result.ret.right.right = LeafTable[2]

\* a node of the tree and every BVH node below it
RECURSIVE NodesOf(_)
NodesOf(node) ==
    IF node.kind = "bvh" THEN {node} \cup NodesOf(node.left) \cup NodesOf(node.right) ELSE {}

\* the hull, axis by axis, of the boxes of a set of objects
HullBox(objs) == AABB_of(HullInterval(objs, 0), HullInterval(objs, 1), HullInterval(objs, 2))

\* box a contains box b on all three axes
BoxContains(a, b) ==
    \A axis \in 0..2 :
        /\ FLe(AABB_axis_interval(a, axis).min, AABB_axis_interval(b, axis).min)
        /\ FLe(AABB_axis_interval(b, axis).max, AABB_axis_interval(a, axis).max)

\* C23: in every BVH built by BVHNode::new from a non-empty list, each node's
\* stored bounding box is the union of the bounding boxes of the leaves in its
\* span, and contains the bounding box of its left child and of its right
\* child on all three axes.
C23_NodeBoxIsUnion ==
    (op = "bvh_new" /\ result.pc = "done") =>
        \A node \in NodesOf(result.ret) :
            /\ node.bounding_box = HullBox(LeavesOf(node))
            /\ BoxContains(node.bounding_box, node.left.bounding_box)
            /\ BoxContains(node.bounding_box, node.right.bounding_box)

\* C23 witness: a tree over four objects has been built whose root box is
\* strictly larger than the box of either child node
C23_Witness ==
    /\ op = "bvh_new" /\ result.pc = "done"
    /\ Len(args.objects) = 4
    /\ result.ret.left.kind = "bvh" /\ result.ret.right.kind = "bvh"
    /\ result.ret.bounding_box # result.ret.left.bounding_box
    /\ result.ret.bounding_box # result.ret.right.bounding_box

\* C29: BVHNode::new terminates for every finite input list, the empty list
\* included: each recursive call of init_from_list is on a strictly smaller
\* span than its caller's, so the call stack never grows past the bound.
C29_SpansShrink ==
    (op = "bvh_new") =>
        /\ result.pc # "overflow"
        /\ \A i \in 2..Len(result.stack) :
               Len(result.stack[i].vec) < Len(result.stack[i - 1].vec)

\* the two crossings of the boundary as the boundary reports them
MediumCross1 == Hittable_hit(args.medium.boundary, args.r, Interval_UNIVERSE, HitRecord_new)

MediumCross2 ==
    Hittable_hit(args.medium.boundary, args.r,
        Interval_with_bounds(FAdd(MediumCross1.rec.t, <<1, 10000>>), INF), HitRecord_new)

\* t1' = max(t1, ray_t.min, 0) and t2' = min(t2, ray_t.max)
MediumT1 == FMax(FMax(MediumCross1.rec.t, args.ray_t.min), Zero)

MediumT2 == FMin(MediumCross2.rec.t, args.ray_t.max)

MediumHitDistance == FMul(args.medium.neg_inv_density, args.ln_random)

MediumHitExpected ==
    /\ MediumCross1.hit
    /\ MediumCross2.hit
    /\ FLt(MediumT1, MediumT2)
    /\ FLe(MediumHitDistance,
           FMul(FSub(MediumT2, MediumT1), Vec3_length(args.r.b_direction)))

\* C24: for density > 0, ConstantMedium::hit reports a hit exactly when both
\* boundary crossings t1 < t2 exist, the clamped values t1' = max(t1,
\* ray_t.min, 0) and t2' = min(t2, ray_t.max) satisfy t1' < t2', and the drawn
\* hit_distance is <= (t2' - t1') * |dir|; the recorded t is then
\* t1' + hit_distance / |dir| and lies in [t1', t2'].  Clamping t1 to 0 before
\* the test t1 >= t2, as this statement does, gives the outcome of the code,
\* which clamps after it.
C24_MediumHitIff ==
    (op = "hit_medium") =>
        /\ result.hit = MediumHitExpected
        /\ result.hit =>
            /\ result.rec.t =
                  FAdd(MediumT1, FDiv(MediumHitDistance, Vec3_length(args.r.b_direction)))
            /\ FLe(MediumT1, result.rec.t)
            /\ FLe(result.rec.t, MediumT2)

\* C24 witness: a ray that starts inside the boundary (first crossing behind
\* the origin, clamped to 0) scatters exactly on the far crossing
C24_Witness ==
    /\ op = "hit_medium" /\ result.hit
    /\ FLt(MediumCross1.rec.t, Zero)
    /\ FLt(args.ray_t.min, Zero)
    /\ MediumT1 = Zero
    /\ result.rec.t = MediumT2

\* C25: Lambertian::scatter always returns true, and when the sum hit.normal +
\* random unit vector is near zero the scattered ray's direction is the hit
\* normal, so a Lambertian scatter never produces a ray with a (near-)zero
\* direction.
C25_ScatterNeverZero ==
    (op = "scatter") =>
        /\ result.ret
        /\ Vec3_near_zero(Vec3_add(args.rec.normal, Vec3_unit(random_in_unit_sphere(args.p))))
              => result.scattered.b_direction = args.rec.normal
        /\ ~Vec3_near_zero(result.scattered.b_direction)

\* C26: after any sequence of add and clear operations on a HittableList,
\* bounding_box() equals the union of the bounding boxes of the objects
\* currently in the list (the EMPTY box when the list holds no object).
C26_ListBoxIsUnion ==
    (op = "list") =>
        result.bounding_box =
            IF result.objects = <<>> THEN AABB_EMPTY ELSE HullBox(RangeOf(result.objects))

\* the hit of object i of the scene on its own, on the whole of ray_t
AloneHit(i) ==
    Hittable_hit(ListTable[args.scene].objects[i], args.r, args.ray_t, HitRecord_new)

SceneIndices == 1..Len(ListTable[args.scene].objects)

CountedWorkers ==
    Cardinality({t \in TileIds : wpc[t] \in {"trace", "write", "dec"}})
    + (IF mainpc = "spawn" THEN 1 ELSE 0)

CounterIsCountedWorkers ==
    RenderRunning =>
        /\ thread_count = CountedWorkers
        /\ mainpc = "returned" => thread_count = 0

\* the counter moves by one; a decrement is the fetch_sub of a spawned worker
\* and finds the counter above 0
DecrementAboveZero ==
    thread_count' # thread_count =>
        \/ thread_count' = thread_count + 1 /\ mainpc = "inc"
        \/ /\ thread_count >= 1
           /\ thread_count' = thread_count - 1
           /\ \E t \in Tiles : t < cur /\ wpc[t] = "dec" /\ wpc'[t] = "notify"

\* C28: in every reachable state of render the atomic counter equals the
\* number of workers admitted by the submission loop (counted by its
\* fetch_add) that have not yet executed their decrement; every decrement is
\* preceded by its own worker's increment, so the unsigned counter is never
\* decremented at 0, and it is 0 when render returns.
C28_CounterIsOutstanding == []CounterIsCountedWorkers /\ [][DecrementAboveZero]_vars

\* C28 witness: the counter is 2 while one counted worker is about to
\* decrement and the other has not been spawned yet
C28_Witness ==
    /\ thread_count = 2
    /\ mainpc = "spawn"
    /\ \E t \in Tiles : wpc[t] = "dec"

\* C30: for every hittable variant (Sphere, Quad, HittableList, BVHNode,
\* Translate, RotateY, ConstantMedium), a hit call that returns false leaves
\* the caller's HitRecord exactly as it was before the call.
C30_MissKeepsRecord ==
    (op \in {"hit_record", "hit_medium"} /\ ~result.hit /\ ~result.exit) =>
        result.rec = args.rec

\* C30 witness: a BVH whose box the ray enters has asked both children, both
\* missed, and the caller's best hit so far is intact
C30_Witness ==
    /\ op = "hit_record" /\ ~result.hit /\ ~result.exit
    /\ args.obj.kind = "bvh"
    /\ AABB_hit(args.obj.bounding_box, args.r, args.ray_t) = "hit"
    /\ args.rec = PriorRecord
    /\ result.rec = PriorRecord

====
